---- MODULE Spec2Model ----
(***************************************************************************)
(* Model of modelwarehouse: the Depot CRUD facade (controller.py) over the *)
(* two ZODB indexes "models" and "projects", the DataObject records        *)
(* (structures.py) and the identity hash produce_hash (utils.py).          *)
(*                                                                         *)
(* Every Depot call is one action: the body, the nested Depot calls it     *)
(* makes and the commit or abort of the safe_transaction wrapper.  The     *)
(* transaction manager is modelled by a working copy and a committed copy  *)
(* of both indexes: commit copies working to committed, abort copies back. *)
(* Records are modelled by value; a ModelMeta is a function from its       *)
(* attribute names to values, None is the string "None".                   *)
(*                                                                         *)
(* Outside the model: the storage backend and its connection, search,      *)
(* Project objects handed over with a member list already filled in,       *)
(* and a ModelMeta shared by reference between two stored Models (the      *)
(* Model built by move_model_to_project carries the same Meta by value).   *)
(***************************************************************************)
EXTENDS Integers, Sequences, FiniteSets, TLC

VARIABLES
    models,     \* root["models"]: IOBTree, identity -> Model (committed)
    projects,   \* root["projects"]: IOBTree, identity -> Project (committed)
    now,        \* the clock read by Model's timestamp default_factory
    last,       \* the last Depot call: arguments, state before it, outcome
    obj,        \* a record held by a caller outside the Depot, with its history
    olast,      \* the last method call on that record
    store,      \* the ConnectionManager: its connection, its DB, the root's keys
    arg,        \* the input a caller hands to a function of utils
    res         \* the function applied to it last, and what it returned

vars == <<models, projects, now, last, obj, olast, store, arg, res>>

(***************************************************************************)
(* Bounds of the model.                                                    *)
(***************************************************************************)
MaxTime == 2        \* the clock stops here: no Model is constructed later
MaxModels == 2      \* callers add a new model only below this index size
MaxMembers == 3     \* the identities 1..MaxMembers are given to a Project's list
MaxDigestBytes == 5 \* the bytes of a digest handed to c_int32, of md5's sixteen
MaxLoopTime == 3    \* the clock may reach this while remove_project moves members
MaxFailAt == 3      \* the commit of a call that fails is one of its first MaxFailAt

(***************************************************************************)
(* Input domains of the callers.                                           *)
(***************************************************************************)
Names == {"", "p1"}
Payloads == {"a", "b"}
Descriptions == {"None", "d"}
Login == "user"

\* dict arguments of ModelMeta(data): free-form keys, here also a key that
\* is at the same time a static field name of Model
PlainMeta == [learning_type |-> "supervised"]
OtherMeta == [learning_type |-> "unsupervised"]
ShadowMeta == [learning_type |-> "supervised", project_name |-> "p1"]

(***************************************************************************)
(* utils.py: the identity hash.                                            *)
(***************************************************************************)
Str(s) == [t |-> "str", v |-> s]
Stamp(n) == [t |-> "ts", v |-> n]

\* Timestamp.isoformat(timespec="microseconds") of the n-th microsecond of
\* 2024-01-01
IsoFormat(n) ==
    "2024-01-01T00:00:00.00000" \o
        (CASE n = 1 -> "1" [] n = 2 -> "2" [] n = 3 -> "3" [] n = 4 -> "4"
           [] n = 5 -> "5" [] n = 6 -> "6" [] n = 7 -> "7")

\* json's text of one str (no character of the domain needs escaping)
Quote(s) == "\"" \o s \o "\""

JsonDefault(x) == IF x.t = "ts" THEN Str(IsoFormat(x.v)) ELSE x

RECURSIVE JoinTokens(_)
JoinTokens(toks) ==
    IF Len(toks) = 0 THEN ""
    ELSE IF Len(toks) = 1 THEN toks[1]
    ELSE toks[1] \o ", " \o JoinTokens(Tail(toks))

JsonDumps(val) ==
    "[" \o JoinTokens([i \in 1..Len(val) |-> Quote(JsonDefault(val[i]).v)]) \o "]"

\* the last four bytes of hashlib.md5(text).digest(), for the texts of the domain
Md5Tail ==
    "[\"\"]" :> <<64, 31, 210, 153>> @@
    "[\"p1\"]" :> <<193, 38, 1, 230>> @@
    "[\"p2\"]" :> <<78, 133, 180, 69>> @@
    "[\"a\", \"\", \"2024-01-01T00:00:00.000001\"]" :> <<141, 132, 72, 53>> @@
    "[\"a\", \"p1\", \"2024-01-01T00:00:00.000001\"]" :> <<195, 46, 237, 121>> @@
    "[\"a\", \"p2\", \"2024-01-01T00:00:00.000001\"]" :> <<27, 242, 131, 122>> @@
    "[\"b\", \"\", \"2024-01-01T00:00:00.000001\"]" :> <<191, 215, 171, 32>> @@
    "[\"b\", \"p1\", \"2024-01-01T00:00:00.000001\"]" :> <<92, 65, 18, 252>> @@
    "[\"b\", \"p2\", \"2024-01-01T00:00:00.000001\"]" :> <<20, 69, 47, 180>> @@
    "[\"a\", \"\", \"2024-01-01T00:00:00.000002\"]" :> <<71, 214, 73, 227>> @@
    "[\"a\", \"p1\", \"2024-01-01T00:00:00.000002\"]" :> <<74, 102, 152, 31>> @@
    "[\"a\", \"p2\", \"2024-01-01T00:00:00.000002\"]" :> <<188, 6, 103, 125>> @@
    "[\"b\", \"\", \"2024-01-01T00:00:00.000002\"]" :> <<161, 33, 125, 236>> @@
    "[\"b\", \"p1\", \"2024-01-01T00:00:00.000002\"]" :> <<249, 131, 202, 10>> @@
    "[\"b\", \"p2\", \"2024-01-01T00:00:00.000002\"]" :> <<22, 74, 166, 205>> @@
    "[\"a\", \"\", \"2024-01-01T00:00:00.000003\"]" :> <<14, 87, 44, 97>> @@
    "[\"a\", \"p1\", \"2024-01-01T00:00:00.000003\"]" :> <<227, 27, 61, 14>> @@
    "[\"a\", \"p2\", \"2024-01-01T00:00:00.000003\"]" :> <<227, 207, 181, 238>> @@
    "[\"b\", \"\", \"2024-01-01T00:00:00.000003\"]" :> <<191, 66, 42, 37>> @@
    "[\"b\", \"p1\", \"2024-01-01T00:00:00.000003\"]" :> <<148, 74, 50, 219>> @@
    "[\"b\", \"p2\", \"2024-01-01T00:00:00.000003\"]" :> <<51, 226, 97, 107>> @@
    "[\"a\", \"\", \"2024-01-01T00:00:00.000004\"]" :> <<95, 218, 32, 77>> @@
    "[\"a\", \"p1\", \"2024-01-01T00:00:00.000004\"]" :> <<116, 206, 109, 238>> @@
    "[\"a\", \"p2\", \"2024-01-01T00:00:00.000004\"]" :> <<172, 178, 146, 29>> @@
    "[\"b\", \"\", \"2024-01-01T00:00:00.000004\"]" :> <<99, 237, 21, 117>> @@
    "[\"b\", \"p1\", \"2024-01-01T00:00:00.000004\"]" :> <<39, 150, 172, 97>> @@
    "[\"b\", \"p2\", \"2024-01-01T00:00:00.000004\"]" :> <<167, 113, 134, 181>> @@
    "[\"a\", \"\", \"2024-01-01T00:00:00.000005\"]" :> <<216, 213, 242, 254>> @@
    "[\"a\", \"p1\", \"2024-01-01T00:00:00.000005\"]" :> <<121, 153, 8, 101>> @@
    "[\"a\", \"p2\", \"2024-01-01T00:00:00.000005\"]" :> <<221, 33, 205, 255>> @@
    "[\"b\", \"\", \"2024-01-01T00:00:00.000005\"]" :> <<93, 244, 34, 16>> @@
    "[\"b\", \"p1\", \"2024-01-01T00:00:00.000005\"]" :> <<67, 100, 251, 232>> @@
    "[\"b\", \"p2\", \"2024-01-01T00:00:00.000005\"]" :> <<239, 51, 8, 120>> @@
    "[\"a\", \"\", \"2024-01-01T00:00:00.000006\"]" :> <<203, 93, 0, 184>> @@
    "[\"a\", \"p1\", \"2024-01-01T00:00:00.000006\"]" :> <<65, 131, 87, 230>> @@
    "[\"a\", \"p2\", \"2024-01-01T00:00:00.000006\"]" :> <<61, 49, 118, 249>> @@
    "[\"b\", \"\", \"2024-01-01T00:00:00.000006\"]" :> <<53, 28, 233, 207>> @@
    "[\"b\", \"p1\", \"2024-01-01T00:00:00.000006\"]" :> <<22, 203, 189, 212>> @@
    "[\"b\", \"p2\", \"2024-01-01T00:00:00.000006\"]" :> <<88, 53, 86, 126>> @@
    "[\"a\", \"\", \"2024-01-01T00:00:00.000007\"]" :> <<168, 159, 189, 238>> @@
    "[\"a\", \"p1\", \"2024-01-01T00:00:00.000007\"]" :> <<121, 140, 214, 208>> @@
    "[\"a\", \"p2\", \"2024-01-01T00:00:00.000007\"]" :> <<148, 23, 78, 222>> @@
    "[\"b\", \"\", \"2024-01-01T00:00:00.000007\"]" :> <<9, 48, 51, 26>> @@
    "[\"b\", \"p1\", \"2024-01-01T00:00:00.000007\"]" :> <<234, 63, 100, 45>> @@
    "[\"b\", \"p2\", \"2024-01-01T00:00:00.000007\"]" :> <<156, 86, 93, 89>>
Md5(text) == Md5Tail[text]

\* faulty variant: the digest modulo 2^31, the sign bit dropped
CInt32Modulo(b) ==
    (b[1] % 128) * 16777216 + b[2] * 65536 + b[3] * 256 + b[4]

\* c_int32(int(digest.hex(), 16)).value: the low 32 bits, read as signed
CInt32(b) ==
    (IF b[1] >= 128 THEN b[1] - 256 ELSE b[1]) * 16777216
        + b[2] * 65536 + b[3] * 256 + b[4]

ProduceHash(val) == CInt32(Md5(JsonDumps(val)))

\* c_int32 of the integer of a whole digest, given as its bytes, the most
\* significant first: ctypes keeps the low four bytes and checks no overflow
CInt32OfDigest(d) == CInt32(SubSeq(d, Len(d) - 3, Len(d)))

(***************************************************************************)
(* Small helpers: dict / BTree item assignment and deletion, list values.  *)
(***************************************************************************)
Put(f, k, v) == [x \in DOMAIN f \cup {k} |-> IF x = k THEN v ELSE f[x]]
Del(f, k) == [x \in DOMAIN f \ {k} |-> f[x]]
Range(s) == {s[i] : i \in 1..Len(s)}
EmptyTree == [x \in {} |-> 0]

\* list.remove(x): drops the first occurrence of x
RECURSIVE ListRemove(_, _)
ListRemove(s, x) ==
    IF Len(s) = 0 THEN s
    ELSE IF Head(s) = x THEN Tail(s)
    ELSE <<Head(s)>> \o ListRemove(Tail(s), x)

\* the outcome of a method on a record: the record, and whether it raised
Done(o) == [obj |-> o, exc |-> FALSE]
Failed(o) == [obj |-> o, exc |-> TRUE]

(***************************************************************************)
(* structures.py: ModelMeta, Model, Project and the DataObject accessors.  *)
(***************************************************************************)
\* the dataclass fields of ModelMeta: class attributes with default None
MetaFields ==
    {"model_type", "learning_type", "model_library", "dataset",
     "objective_func", "training_accuracy", "test_accuracy", "comment"}

\* ModelMeta.__init__ / _parse_input: setattr for every key of the dict
ModelMeta(data) ==
    [k \in MetaFields \cup DOMAIN data |->
        IF k \in DOMAIN data THEN data[k] ELSE "None"]

ModelFields == {"model_object", "project_name", "meta_data", "creator", "timestamp"}
ModelStaticFields == {"timestamp", "project_name", "model_object"}
ProjectFields == {"project_name", "project_description", "models", "creator"}
ProjectStaticFields == {"project_name"}

\* infer_obj_module of a builtin str payload
InferObjModule(model_object) == "builtins"

\* DataObject._filter_data_object on a Model: the embedded DataObjects come
\* first in the chain, the Model itself last
ModelFilterDataObject(m, key) ==
    IF key \in DOMAIN m.meta_data THEN "meta"
    ELSE IF key \in ModelFields THEN "self"
    ELSE "none"

\* DataObject.__contains__ / get_field on a Model (has: whether it resolves)
ModelHasField(m, key) == ModelFilterDataObject(m, key) # "none"
ModelGetField(m, key) ==
    IF ModelFilterDataObject(m, key) = "meta" THEN m.meta_data[key] ELSE m[key]

\* DataObject.__getitem__ on a Model: the value, or AttributeError
ModelGetItem(m, key) ==
    IF ModelHasField(m, key) THEN [val |-> ModelGetField(m, key), exc |-> FALSE]
    ELSE [val |-> "", exc |-> TRUE]

\* faulty variant: a key the Model itself lacks is not looked up in the Meta
ModelSetItemNoDelegate(m, key, val) ==
    IF key \notin ModelFields \/ key \in ModelStaticFields THEN Failed(m)
    ELSE Done([m EXCEPT ![key] = val])

\* DataObject.__setitem__ on a Model
ModelSetItem(m, key, val) ==
    LET owner == ModelFilterDataObject(m, key)
    IN  IF owner = "none" THEN Failed(m)
        ELSE IF owner = "meta" THEN Done([m EXCEPT !.meta_data[key] = val])
        ELSE IF key \in ModelStaticFields THEN Failed(m)
        ELSE Done([m EXCEPT ![key] = val])

\* Model(...) with an embedded ModelMeta, and its __post_init__
NewModel(model_object, project_name, meta, timestamp) ==
    LET m0 == [model_object |-> model_object, project_name |-> project_name,
               meta_data |-> meta, creator |-> "Unknown", timestamp |-> timestamp]
        m1 == [m0 EXCEPT !.meta_data["model_library"] = InferObjModule(model_object)]
    IN  ModelSetItem(m1, "creator", Login).obj

\* DataObject._eval_hash of a Model: the static fields in sorted order, each
\* read through get_field
ModelId(m) ==
    ProduceHash(<<Str(ModelGetField(m, "model_object")),
                  Str(ModelGetField(m, "project_name")),
                  Stamp(ModelGetField(m, "timestamp"))>>)

\* Project(project_name, project_description) and its __post_init__
NewProject(project_name, project_description) ==
    [project_name |-> project_name, project_description |-> project_description,
     models |-> <<>>, creator |-> Login]

ProjectGetField(p, key) == p[key]

\* DataObject.__getitem__ on a Project: the value, or AttributeError
ProjectGetItem(p, key) ==
    IF key \in ProjectFields THEN [val |-> ProjectGetField(p, key), exc |-> FALSE]
    ELSE [val |-> "", exc |-> TRUE]

\* DataObject.__setitem__ on a Project
ProjectSetItem(p, key, val) ==
    IF key \notin ProjectFields THEN Failed(p)
    ELSE IF key \in ProjectStaticFields THEN Failed(p)
    ELSE Done([p EXCEPT ![key] = val])

ProjectId(p) == ProduceHash(<<Str(ProjectGetField(p, "project_name"))>>)

\* DataObject.id of a record of the given kind
IdOf(kind, rec) == IF kind = "model" THEN ModelId(rec) ELSE ProjectId(rec)

\* faulty variant: the comparison dataclass would generate, field by field
DataObjectEqByFields(kind, a, b) == a = b

\* DataObject.__eq__: isinstance(self, self.__class__) is true of every self
DataObjectEq(kind, a, b) == IdOf(kind, a) = IdOf(kind, b)

\* DataObject.__lt__
DataObjectLt(kind, a, b) == IdOf(kind, a) < IdOf(kind, b)

\* faulty variant: the stored list itself is handed out
GetFieldListNoCopy(p, key) == [list |-> p[key], shared |-> TRUE, held |-> TRUE]

\* DataObject.get_field on a list-valued field: val.copy()
GetFieldList(p, key) == [list |-> p[key], shared |-> FALSE, held |-> TRUE]

\* faulty variant: the new member goes to the front of the list
ProjectAddModelPrepend(p, new_model_id) ==
    IF new_model_id \in Range(p.models) THEN Failed(p)
    ELSE Done([p EXCEPT !.models = <<new_model_id>> \o @])

\* Project.add_model
ProjectAddModel(p, new_model_id) ==
    IF new_model_id \in Range(p.models) THEN Failed(p)
    ELSE Done([p EXCEPT !.models = Append(@, new_model_id)])

\* faulty variant: removing an id that is not a member passes silently
ProjectRemoveModelLenient(p, model_id) ==
    Done([p EXCEPT !.models = ListRemove(@, model_id)])

\* Project.remove_model
ProjectRemoveModel(p, model_id) ==
    IF model_id \notin Range(p.models) THEN Failed(p)
    ELSE Done([p EXCEPT !.models = ListRemove(@, model_id)])

(***************************************************************************)
(* database.py / controller.py: the transaction and the Depot operations.  *)
(* A world w holds the working indexes, the committed indexes, the clock   *)
(* and the Store / Log events of the running call.                         *)
(***************************************************************************)
World(ms, ps, t) ==
    [models |-> ms, projects |-> ps, cmodels |-> ms, cprojects |-> ps,
     now |-> t, evs |-> <<>>, attempts |-> 0, failat |-> 0, seen |-> <<>>]

\* the same with a Store whose failat-th transaction.commit() of the call
\* raises (0: none does)
FaultyWorld(ms, ps, t, k) == [World(ms, ps, t) EXCEPT !.failat = k]

\* the outcome of a body: the world it leaves, and whether it raised
Ok(w) == [w |-> w, exc |-> FALSE]
Raise(w) == [w |-> w, exc |-> TRUE]

Log(w, e) == [w EXCEPT !.evs = Append(@, e)]

\* ConnectionManager.commit as seen in the log of the connection operators
CommitRoot(c) == Log(c, "commit")

\* ConnectionManager.commit: transaction.commit()
Commit(w) ==
    [w EXCEPT !.cmodels = w.models, !.cprojects = w.projects,
              !.evs = Append(@, "commit")]

\* faulty variant: the abort leaves the working indexes as the body left them
CancelCommitKeep(w) == [w EXCEPT !.evs = Append(@, "abort")]

\* ConnectionManager.cancel_commit: transaction.abort()
CancelCommit(w) ==
    [w EXCEPT !.models = w.cmodels, !.projects = w.cprojects,
              !.evs = Append(@, "abort")]

\* faulty variant: the wrapper lets what the body raised reach the caller
SafeTransactionReraise(r) ==
    IF r.exc THEN Raise(Log(CancelCommit(r.w), "error"))
    ELSE Ok(Log(Commit(r.w), "success"))

\* safe_transaction(supress_abort=False): the wrapper around a body's outcome;
\* the except clause swallows what the body raised
SafeTransaction(r) ==
    IF r.exc THEN Ok(Log(CancelCommit(r.w), "error"))
    ELSE LET w == [r.w EXCEPT !.attempts = @ + 1]
         IN  IF w.failat = w.attempts
             THEN Ok(Log(CancelCommit(Log(w, "commit_failed")), "error"))
             ELSE Ok(Log(Commit(w), "success"))

\* the body of Depot.add_model
AddModelBody(w, new_model) ==
    LET model_id == ModelId(new_model)
        project_name == new_model.project_name
        project_id == ProduceHash(<<Str(project_name)>>)
    IN  IF project_id \notin DOMAIN w.projects THEN Raise(w)
        ELSE IF model_id \in DOMAIN w.models THEN Raise(w)
        ELSE LET w1 == [w EXCEPT !.models = Put(@, model_id, new_model)]
                 r == ProjectAddModel(w1.projects[project_id], model_id)
             IN  IF r.exc THEN Raise(w1)
                 ELSE Ok(Log([w1 EXCEPT !.projects[project_id] = r.obj], "info"))

add_model(w, new_model) == SafeTransaction(AddModelBody(w, new_model))

\* faulty variant: a model whose project is not in the index is deleted all
\* the same
RemoveModelBodyLenient(w, model_id) ==
    IF model_id \notin DOMAIN w.models THEN Raise(w)
    ELSE LET project_id ==
                 ProduceHash(<<Str(ModelGetField(w.models[model_id], "project_name"))>>)
             w1 == [w EXCEPT !.models = Del(@, model_id)]
         IN  IF project_id \notin DOMAIN w1.projects THEN Ok(Log(w1, "info"))
             ELSE LET r == ProjectRemoveModel(w1.projects[project_id], model_id)
                  IN  IF r.exc THEN Raise(w1)
                      ELSE Ok(Log([w1 EXCEPT !.projects[project_id] = r.obj], "info"))

\* the body of Depot.remove_model
RemoveModelBody(w, model_id) ==
    IF model_id \notin DOMAIN w.models THEN Raise(w)
    ELSE LET project_id ==
                 ProduceHash(<<Str(ModelGetField(w.models[model_id], "project_name"))>>)
             w1 == [w EXCEPT !.models = Del(@, model_id)]
         IN  IF project_id \notin DOMAIN w1.projects THEN Raise(w1)
             ELSE LET r == ProjectRemoveModel(w1.projects[project_id], model_id)
                  IN  IF r.exc THEN Raise(w1)
                      ELSE Ok(Log([w1 EXCEPT !.projects[project_id] = r.obj], "info"))

remove_model(w, model_id) == SafeTransaction(RemoveModelBody(w, model_id))

\* faulty variant: an existing project of the same identity is overwritten
AddProjectBodyOverwrite(w, new_project) ==
    Ok(Log([w EXCEPT !.projects = Put(@, ProjectId(new_project), new_project)], "info"))

\* the body of Depot.add_project
AddProjectBody(w, new_project) ==
    LET id == ProjectId(new_project)
    IN  IF id \in DOMAIN w.projects THEN Raise(w)
        ELSE Ok(Log([w EXCEPT !.projects = Put(@, id, new_project)], "info"))

add_project(w, new_project) == SafeTransaction(AddProjectBody(w, new_project))

\* a str | int | None argument
NoTarget == [kind |-> "none", name |-> "", id |-> 0]
ByName(n) == [kind |-> "str", name |-> n, id |-> 0]
ById(i) == [kind |-> "int", name |-> "", id |-> i]

\* Python truth value of a str | int | None
Truthy(x) ==
    CASE x.kind = "none" -> FALSE
      [] x.kind = "str" -> x.name # ""
      [] x.kind = "int" -> x.id # 0

\* faulty variant: the old model is removed before the new one is added
MoveRemoveFirst(w, model_id, new_project) ==
    IF model_id \notin DOMAIN w.models THEN Raise(w)
    ELSE IF new_project.kind = "int" /\ new_project.id \notin DOMAIN w.projects
    THEN Raise(w)
    ELSE LET existing_model == w.models[model_id]
             name == IF new_project.kind = "str" THEN new_project.name
                     ELSE ProjectGetField(w.projects[new_project.id], "project_name")
             t == w.now + 1
             new_model_obj ==
                 NewModel(ModelGetField(existing_model, "model_object"), name,
                          ModelGetField(existing_model, "meta_data"), t)
         IN  add_model(remove_model([w EXCEPT !.now = t], model_id).w, new_model_obj)

\* Depot.move_model_to_project up to and including its call of add_model:
\* the lookups can raise; the Model it constructs reads the clock
MoveAdd(w, model_id, new_project) ==
    IF model_id \notin DOMAIN w.models THEN Raise(w)
    ELSE IF new_project.kind = "int" /\ new_project.id \notin DOMAIN w.projects
    THEN Raise(w)
    ELSE LET existing_model == w.models[model_id]
             name == IF new_project.kind = "str" THEN new_project.name
                     ELSE ProjectGetField(w.projects[new_project.id], "project_name")
             t == w.now + 1
             new_model_obj ==
                 NewModel(ModelGetField(existing_model, "model_object"), name,
                          ModelGetField(existing_model, "meta_data"), t)
         IN  add_model([w EXCEPT !.now = t], new_model_obj)

\* Depot.move_model_to_project: not wrapped, so it can raise
move_model_to_project(w, model_id, new_project) ==
    LET r == MoveAdd(w, model_id, new_project)
    IN  IF r.exc THEN r ELSE remove_model(r.w, model_id)

\* the for loop of Depot.remove_project over the copy get_field returned;
\* seen is the sequence of values model_id has taken
RECURSIVE RemoveProjectLoop(_, _, _)
RemoveProjectLoop(w, ids, move_to_new_project) ==
    IF Len(ids) = 0 THEN Ok(w)
    ELSE LET w1 == [w EXCEPT !.seen = Append(@, Head(ids))]
         IN  IF Truthy(move_to_new_project)
             THEN LET r == move_model_to_project(w1, Head(ids), move_to_new_project)
                  IN  IF r.exc THEN r
                      ELSE RemoveProjectLoop(r.w, Tail(ids), move_to_new_project)
             ELSE LET r == remove_model(w1, Head(ids))
                  IN  IF r.exc THEN r
                      ELSE RemoveProjectLoop(r.w, Tail(ids), move_to_new_project)

\* the body of Depot.remove_project
RemoveProjectBody(w, project_id, move_to_new_project) ==
    IF project_id \notin DOMAIN w.projects THEN Raise(w)
    ELSE LET r == RemoveProjectLoop(w, ProjectGetField(w.projects[project_id], "models"),
                                    move_to_new_project)
         IN  IF r.exc THEN r
             ELSE IF project_id \notin DOMAIN r.w.projects THEN Raise(r.w)
             ELSE Ok(Log([r.w EXCEPT !.projects = Del(@, project_id)], "info"))

remove_project(w, project_id, move_to_new_project) ==
    SafeTransaction(RemoveProjectBody(w, project_id, move_to_new_project))

\* the body of Depot.update_object_attr
UpdateObjectAttrBody(w, id, attr, val) ==
    IF id \in DOMAIN w.models
    THEN LET r == ModelSetItem(w.models[id], attr, val)
         IN  IF r.exc THEN Raise(w)
             ELSE Ok(Log([w EXCEPT !.models[id] = r.obj], "info"))
    ELSE IF id \in DOMAIN w.projects
    THEN LET r == ProjectSetItem(w.projects[id], attr, val)
         IN  IF r.exc THEN Raise(w)
             ELSE Ok(Log([w EXCEPT !.projects[id] = r.obj], "info"))
    ELSE Raise(w)

update_object_attr(w, id, attr, val) ==
    SafeTransaction(UpdateObjectAttrBody(w, id, attr, val))

(***************************************************************************)
(* utils.py: resolve_search, _resolve_type; controller.py: search_models.  *)
(* A search expression is a sequence of characters; a literal is a record  *)
(* of its Python type t, its text, its number n (int, Timestamp) and its   *)
(* characters cs (str).                                                    *)
(***************************************************************************)
\* ord(c) of the characters that occur
Ord ==
    "'" :> 39 @@ "-" :> 45 @@ "." :> 46 @@ "0" :> 48 @@ "1" :> 49 @@
    "2" :> 50 @@ "3" :> 51 @@ "4" :> 52 @@ "5" :> 53 @@ "6" :> 54 @@
    "7" :> 55 @@ "8" :> 56 @@ "9" :> 57 @@ ":" :> 58 @@ "<" :> 60 @@
    "=" :> 61 @@ ">" :> 62 @@ "N" :> 78 @@ "T" :> 84 @@ "U" :> 85 @@
    "a" :> 97 @@ "b" :> 98 @@ "c" :> 99 @@ "d" :> 100 @@ "e" :> 101 @@
    "f" :> 102 @@ "g" :> 103 @@ "h" :> 104 @@ "i" :> 105 @@ "j" :> 106 @@
    "k" :> 107 @@ "l" :> 108 @@ "m" :> 109 @@ "n" :> 110 @@ "o" :> 111 @@
    "p" :> 112 @@ "q" :> 113 @@ "r" :> 114 @@ "s" :> 115 @@ "t" :> 116 @@
    "u" :> 117 @@ "v" :> 118 @@ "w" :> 119 @@ "x" :> 120 @@ "y" :> 121 @@
    "z" :> 122

\* the characters of the str values that occur
Chars ==
    "" :> <<>> @@ "a" :> <<"a">> @@ "b" :> <<"b">> @@
    "p1" :> <<"p", "1">> @@ "d" :> <<"d">> @@ "c" :> <<"c">> @@
    "x" :> <<"x">> @@ "me" :> <<"m", "e">> @@
    "user" :> <<"u", "s", "e", "r">> @@
    "Unknown" :> <<"U", "n", "k", "n", "o", "w", "n">> @@
    "builtins" :> <<"b", "u", "i", "l", "t", "i", "n", "s">> @@
    "supervised" :> <<"s", "u", "p", "e", "r", "v", "i", "s", "e", "d">> @@
    "unsupervised" :> <<"u", "n", "s", "u", "p", "e", "r", "v", "i", "s", "e", "d">> @@
    "tuned" :> <<"t", "u", "n", "e", "d">> @@ "==" :> <<"=", "=">> @@
    ">=" :> <<">", "=">> @@ "<" :> <<"<">> @@
    ">" :> <<">">> @@ "<=" :> <<"<", "=">> @@
    "5" :> <<"5">> @@ "12" :> <<"1", "2">> @@ "5.46" :> <<"5", ".", "4", "6">> @@
    "0.5" :> <<"0", ".", "5">> @@ "True" :> <<"T", "r", "u", "e">> @@
    "None" :> <<"N", "o", "n", "e">> @@
    "2024-01-01T00:00:00.000001" :> <<"2", "0", "2", "4", "-", "0", "1", "-", "0", "1", "T", "0", "0", ":", "0", "0", ":", "0", "0", ".", "0", "0", "0", "0", "0", "1">> @@
    "2024-01-01T00:00:00.000002" :> <<"2", "0", "2", "4", "-", "0", "1", "-", "0", "1", "T", "0", "0", ":", "0", "0", ":", "0", "0", ".", "0", "0", "0", "0", "0", "2">>

RECURSIVE Text(_)
Text(cs) == IF cs = <<>> THEN "" ELSE Head(cs) \o Text(Tail(cs))

Lit(t, text, n, cs) == [t |-> t, text |-> text, n |-> n, cs |-> cs]

\* str < str: by code point, a proper prefix first
RECURSIVE LexLess(_, _)
LexLess(a, b) ==
    IF b = <<>> THEN FALSE
    ELSE IF a = <<>> THEN TRUE
    ELSE IF Head(a) # Head(b) THEN Ord[Head(a)] < Ord[Head(b)]
    ELSE LexLess(Tail(a), Tail(b))

\* the keys of _op_lookup, and the character class [<>=] of the pattern
OpLookup == {">", "<", ">=", "<=", "=="}
OpChars == {"<", ">", "="}
Digits == {"0", "1", "2", "3", "4", "5", "6", "7", "8", "9"}

\* re.findall(...)[0]: where the first run of [<>=] starts (0: no match) ...
RECURSIVE FirstOp(_, _)
FirstOp(cs, i) ==
    IF i > Len(cs) THEN 0
    ELSE IF cs[i] \in OpChars THEN i
    ELSE FirstOp(cs, i + 1)

\* ... and where that run, matched greedily, ends
RECURSIVE RunEnd(_, _)
RunEnd(cs, i) ==
    IF i < Len(cs) /\ cs[i + 1] \in OpChars THEN RunEnd(cs, i + 1) ELSE i

RECURSIVE IntOf(_)
IntOf(cs) ==
    IF cs = <<>> THEN 0
    ELSE IntOf(SubSeq(cs, 1, Len(cs) - 1)) * 10 + (Ord[cs[Len(cs)]] - Ord["0"])

\* faulty variant: to_datetime is asked before literal_eval, and it reads a
\* run of digits as a date
ResolveTypeDatetimeFirst(cs) ==
    LET text == Text(cs)
    IN  IF \E n \in 1..7 : text = IsoFormat(n)
        THEN Lit("ts", text, CHOOSE n \in 1..7 : text = IsoFormat(n), cs)
        ELSE IF cs = <<>> THEN Lit("nat", text, 0, cs)
        ELSE IF \A i \in 1..Len(cs) : cs[i] \in Digits
        THEN Lit("ts", text, IntOf(cs), cs)
        ELSE IF text = "None" THEN Lit("none", text, 0, cs)
        ELSE IF text = "True" THEN Lit("bool", text, 1, cs)
        ELSE Lit("str", text, 0, cs)

\* _resolve_type: literal_eval, then to_datetime, then the str itself.  Of
\* literal_eval: decimal ints, floats written as digits with one point (n is
\* the number with the point left out), None and True
ResolveType(cs) ==
    LET text == Text(cs)
        points == {i \in 1..Len(cs) : cs[i] = "."}
    IN  IF /\ cs # <<>>
           /\ \A i \in 1..Len(cs) : cs[i] \in Digits
           /\ (Len(cs) = 1 \/ cs[1] # "0")
        THEN Lit("int", text, IntOf(cs), cs)
        ELSE IF /\ Cardinality(points) = 1
                /\ Len(cs) > 1
                /\ \A i \in 1..Len(cs) : cs[i] \in Digits \cup {"."}
        THEN Lit("float", text, IntOf(SelectSeq(cs, LAMBDA c : c # ".")), cs)
        ELSE IF text = "True" THEN Lit("bool", text, 1, cs)
        ELSE IF text = "None" THEN Lit("none", text, 0, cs)
        ELSE IF \E n \in 1..7 : text = IsoFormat(n)
        THEN Lit("ts", text, CHOOSE n \in 1..7 : text = IsoFormat(n), cs)
        ELSE IF cs = <<>> THEN Lit("nat", text, 0, cs)
        ELSE Lit("str", text, 0, cs)

\* resolve_search: IndexError when nothing matches, KeyError when the run of
\* [<>=] is no key of _op_lookup; one leading quote of the value is dropped
ResolveSearch(expr) ==
    LET i == FirstOp(expr, 1)
        j == RunEnd(expr, i)
        cmp == Text(SubSeq(expr, i, j))
        rest == SubSeq(expr, j + 1, Len(expr))
        value == IF rest # <<>> /\ rest[1] = "'" THEN Tail(rest) ELSE rest
    IN  IF i = 0 THEN [exc |-> TRUE, cmp |-> "", lit |-> Lit("none", "", 0, <<>>)]
        ELSE IF cmp \notin OpLookup
        THEN [exc |-> TRUE, cmp |-> cmp, lit |-> Lit("none", "", 0, <<>>)]
        ELSE [exc |-> FALSE, cmp |-> cmp, lit |-> ResolveType(value)]

\* the value get_field gives for key on a Model, as a literal
FieldLit(m, key) ==
    LET v == ModelGetField(m, key)
    IN  IF key = "meta_data" THEN Lit("obj", "", 0, <<>>)
        ELSE IF key = "timestamp" /\ ModelFilterDataObject(m, key) = "self"
        THEN Lit("ts", IsoFormat(v), v, <<>>)
        ELSE IF v = "None" THEN Lit("none", "None", 0, <<>>)
        ELSE Lit("str", v, 0, Chars[v])

\* operator.eq / gt / lt / ge / le on a field value and a literal: == between
\* different types is False, an ordering between them is TypeError
CompOp(cmp, f, l) ==
    LET less(a, b) == IF a.t = "str" THEN LexLess(a.cs, b.cs) ELSE a.n < b.n
        same == f.t = l.t /\ (IF f.t \in {"ts", "int"} THEN f.n = l.n
                              ELSE f.t \in {"str", "none"} /\ f.text = l.text)
    IN  IF cmp = "==" THEN [val |-> same, exc |-> FALSE]
        ELSE IF f.t = "ts" /\ l.t = "nat" THEN [val |-> FALSE, exc |-> FALSE]
        ELSE IF f.t # l.t \/ f.t \notin {"str", "ts", "int"}
        THEN [val |-> FALSE, exc |-> TRUE]
        ELSE [val |-> CASE cmp = "<" -> less(f, l)
                        [] cmp = ">" -> less(l, f)
                        [] cmp = "<=" -> ~less(l, f)
                        [] cmp = ">=" -> ~less(f, l),
              exc |-> FALSE]

\* faulty variant: a Model that lacks a filtered field passes that filter
RECURSIVE InspectModelAbsentPasses(_, _)
InspectModelAbsentPasses(m, kwargs) ==
    IF kwargs = <<>> THEN [val |-> TRUE, exc |-> FALSE]
    ELSE LET key == Head(kwargs)[1]
             rs == ResolveSearch(Head(kwargs)[2])
         IN  IF rs.exc THEN [val |-> FALSE, exc |-> TRUE]
             ELSE IF ~ModelHasField(m, key)
             THEN InspectModelAbsentPasses(m, Tail(kwargs))
             ELSE LET c == CompOp(rs.cmp, FieldLit(m, key), rs.lit)
                  IN  IF c.exc THEN c
                      ELSE IF ~c.val THEN c
                      ELSE InspectModelAbsentPasses(m, Tail(kwargs))

\* Depot._inspect_model: kwargs is the sequence of (key, expression) pairs;
\* only the AttributeError of get_field is caught
RECURSIVE InspectModel(_, _)
InspectModel(m, kwargs) ==
    IF kwargs = <<>> THEN [val |-> TRUE, exc |-> FALSE]
    ELSE LET key == Head(kwargs)[1]
             rs == ResolveSearch(Head(kwargs)[2])
         IN  IF rs.exc THEN [val |-> FALSE, exc |-> TRUE]
             ELSE IF ~ModelHasField(m, key) THEN [val |-> FALSE, exc |-> FALSE]
             ELSE LET c == CompOp(rs.cmp, FieldLit(m, key), rs.lit)
                  IN  IF c.exc THEN c
                      ELSE IF ~c.val THEN c
                      ELSE InspectModel(m, Tail(kwargs))

\* Model.__repr__: what str(model) shows
ModelRepr(m) ==
    [model_id |-> ModelId(m), project_name |-> m.project_name,
     creator |-> m.creator, timestamp |-> m.timestamp, meta_data |-> m.meta_data]

\* format_output of search_models
FormatOutput(m, view_only) == IF view_only THEN ModelRepr(m) ELSE m

\* Depot._traverse("models"): the keys of the IOBTree in ascending order
RECURSIVE Traverse(_)
Traverse(keys) ==
    IF keys = {} THEN <<>>
    ELSE LET k == CHOOSE x \in keys : \A y \in keys : x <= y
         IN  <<k>> \o Traverse(keys \ {k})

\* the list comprehension of search_models over the ids still to visit
RECURSIVE Collect(_, _, _, _)
Collect(ms, ids, view_only, kwargs) ==
    IF ids = <<>> THEN [val |-> <<>>, exc |-> FALSE]
    ELSE LET r == InspectModel(ms[Head(ids)], kwargs)
             rest == Collect(ms, Tail(ids), view_only, kwargs)
         IN  IF r.exc THEN [val |-> <<>>, exc |-> TRUE]
             ELSE IF rest.exc THEN rest
             ELSE IF r.val
             THEN [val |-> <<<<Head(ids), FormatOutput(ms[Head(ids)], view_only)>>>> \o rest.val,
                   exc |-> FALSE]
             ELSE rest

\* Depot.search_models: with a project, the generator asks each member id,
\* an int, for its attribute id
search_models(w, view_only, project, kwargs) ==
    IF Truthy(project)
    THEN LET project_id == IF project.kind = "int" THEN project.id
                           ELSE ProduceHash(<<Str(project.name)>>)
         IN  IF project_id \notin DOMAIN w.projects THEN [val |-> <<>>, exc |-> TRUE]
             ELSE IF ProjectGetField(w.projects[project_id], "models") = <<>>
             THEN [val |-> <<>>, exc |-> FALSE]
             ELSE [val |-> <<>>, exc |-> TRUE]
    ELSE Collect(w.models, Traverse(DOMAIN w.models), view_only, kwargs)

(***************************************************************************)
(* The ConnectionManager and the root mapping.  connected: _conn is a      *)
(* Connection; db: the DB object kept in _db is open or was closed; root:  *)
(* the keys of the root mapping; phase: "init" while Depot.__init__ has    *)
(* built the ConnectionManager and not yet validated the root objects.     *)
(* An index whose key is missing from the root is written as an empty tree.*)
(***************************************************************************)
RootKeys == <<"models", "projects">>

Connected ==
    [connected |-> TRUE, db |-> "open", root |-> Range(RootKeys), phase |-> "ready"]

\* what the connection operators work on: the manager, the indexes, the log
Conn(s, ms, ps) ==
    [connected |-> s.connected, db |-> s.db, root |-> s.root, phase |-> s.phase,
     models |-> ms, projects |-> ps, evs |-> <<>>]

\* ConnectionManager.is_connected
is_connected(c) == c.connected

\* Depot._init_root_object under safe_transaction(supress_abort=True): the
\* KeyError of an existing key is swallowed without abort and without log
InitRootObject(c, key) ==
    IF key \in c.root THEN c
    ELSE Log(CommitRoot(IF key = "models"
                     THEN [c EXCEPT !.root = @ \cup {key}, !.models = EmptyTree]
                     ELSE [c EXCEPT !.root = @ \cup {key}, !.projects = EmptyTree]),
             "success")

\* Depot._validate_root_objects
RECURSIVE ValidateRootObjects(_, _)
ValidateRootObjects(c, keys) ==
    IF keys = <<>> THEN c
    ELSE ValidateRootObjects(InitRootObject(c, Head(keys)), Tail(keys))

\* ConnectionManager.create_db_connection for a file storage: _storage and
\* _db are kept when set, and _db.open() is asked for a connection; opens
\* is what a closed DB answers (it raises, or hands out a connection)
create_db_connection(c, opens) ==
    IF c.db = "closed" /\ ~opens THEN Raise(Log(c, "error"))
    ELSE Ok(Log([c EXCEPT !.connected = TRUE, !.db = "open"], "info"))

\* ConnectionManager._close: pack and close the DB, forget the connection
close_db_connection(c) ==
    IF is_connected(c)
    THEN Log([c EXCEPT !.connected = FALSE, !.db = "closed"], "info")
    ELSE c

\* Depot.reset_connection
reset_connection(c, opens) ==
    IF ~is_connected(c)
    THEN LET r == create_db_connection(c, opens)
         IN  IF r.exc THEN r ELSE Ok(ValidateRootObjects(r.w, RootKeys))
    ELSE Ok(c)

\* sorted() on a list of str: insertion of one name into a sorted list
RECURSIVE Insert(_, _)
Insert(name, sorted) ==
    IF sorted = <<>> THEN <<name>>
    ELSE IF LexLess(Chars[name], Chars[Head(sorted)]) THEN <<name>> \o sorted
    ELSE <<Head(sorted)>> \o Insert(name, Tail(sorted))

RECURSIVE Sorted(_)
Sorted(names) ==
    IF names = <<>> THEN <<>> ELSE Insert(Head(names), Sorted(Tail(names)))

\* the list comprehension of project_names: the names in traversal order
TraverseNames(ps) ==
    LET keys == Traverse(DOMAIN ps)
    IN  [i \in 1..Len(keys) |-> ProjectGetField(ps[keys[i]], "project_name")]

project_names_unsorted(w) == TraverseNames(w.projects)

\* Depot.project_names
project_names(w) == Sorted(TraverseNames(w.projects))

\* faulty variant: search_models and project_names run inside the wrapper
ReadCallWrapped(w, r) ==
    LET t == SafeTransaction([w |-> w, exc |-> r.exc])
    IN  [w |-> t.w, exc |-> t.exc, val |-> r.val]

\* a call of search_models or of the property project_names, which are
\* defined without @safe_transaction: the Depot as the body left it, what
\* the body raised and what it returned
ReadCall(w, r) == [w |-> w, exc |-> r.exc, val |-> r.val]

(***************************************************************************)
(* The callers: one action per public Depot operation.                     *)
(***************************************************************************)
\* the Model objects a caller can hold: constructed at some past clock value
ModelInputs ==
    {NewModel(o, n, ModelMeta(PlainMeta), now) : o \in Payloads, n \in Names}
        \cup {NewModel("a", n, ModelMeta(OtherMeta), now) : n \in Names}
        \cup {NewModel(o, "", ModelMeta(ShadowMeta), now) : o \in Payloads}

ProjectInputs ==
    {NewProject(n, "None") : n \in Names} \cup {NewProject("p1", d) : d \in Descriptions}

ProjectIdInputs == {ProduceHash(<<Str(n)>>) : n \in Names}

\* the keys of the model index, and integers that are no key of it
IdInputs == DOMAIN models \cup ProjectIdInputs

TargetInputs == {ByName(n) : n \in Names} \cup {ById(i) : i \in ProjectIdInputs}

UpdateInputs ==
    { <<"project_name", "p1">>, <<"project_description", "d">>, <<"bogus", "x">> }

\* updates that name a static field of a Model or of a Project
StaticUpdateInputs ==
    { <<"model_object", "b">>, <<"project_name", "">>, <<"timestamp", "x">> }

\* updates that name a field of the embedded ModelMeta only
MetaUpdateInputs == { <<"learning_type", "unsupervised">>, <<"comment", "c">> }

\* the record of a call: what it was given, the committed state before it,
\* what the Store and the Log saw, whether an exception reached the caller
Call(op, args, r) ==
    [op |-> op, args |-> args, pre_models |-> models, pre_projects |-> projects,
     pre_now |-> now, evs |-> r.w.evs, raised |-> r.exc, seen |-> r.w.seen]

Finish(op, args, r) ==
    /\ models' = r.w.models
    /\ projects' = r.w.projects
    /\ now' = r.w.now
    /\ last' = Call(op, args, r)
    /\ UNCHANGED <<obj, olast, store, arg, res>>

W0 == World(models, projects, now)

AddModel ==
    \E m \in ModelInputs :
        /\ ModelId(m) \in DOMAIN models \/ Cardinality(DOMAIN models) < MaxModels
        /\ Finish("add_model", [model |-> m], add_model(W0, m))

RemoveModel ==
    \E id \in IdInputs :
        Finish("remove_model", [id |-> id], remove_model(W0, id))

AddProject ==
    \E p \in ProjectInputs :
        Finish("add_project", [project |-> p], add_project(W0, p))

\* the number of Models the call would construct
Moves(project_id, target) ==
    IF project_id \in DOMAIN projects /\ Truthy(target)
    THEN Len(projects[project_id].models) ELSE 0

RemoveProject ==
    \E id \in ProjectIdInputs, target \in {NoTarget} \cup TargetInputs :
        /\ now + Moves(id, target) <= MaxTime
        /\ Finish("remove_project", [id |-> id, target |-> target],
                  remove_project(W0, id, target))

MoveModelToProject ==
    \E id \in IdInputs, target \in TargetInputs :
        /\ now < MaxTime
        /\ Finish("move_model_to_project", [id |-> id, target |-> target],
                  move_model_to_project(W0, id, target))

UpdateObjectAttr ==
    \E id \in IdInputs, u \in UpdateInputs :
        Finish("update_object_attr", [id |-> id, attr |-> u[1], val |-> u[2]],
               update_object_attr(W0, id, u[1], u[2]))

\* before the first Depot call
NoCall ==
    [op |-> "init", args |-> <<>>, pre_models |-> EmptyTree,
     pre_projects |-> EmptyTree, pre_now |-> 1, evs |-> <<>>, raised |-> FALSE,
     seen |-> <<>>]

\* no record is held outside the Depot, and no method was called on one
NoRecord == [kind |-> "none"]
NoMethod == [op |-> "init"]
NoInput == [kind |-> "none"]
NoResult == [fn |-> "none"]

\* update_object_attr with the wider set of attribute names
UpdateObjectAttrAny ==
    \E id \in IdInputs, u \in UpdateInputs \cup StaticUpdateInputs \cup MetaUpdateInputs :
        Finish("update_object_attr", [id |-> id, attr |-> u[1], val |-> u[2]],
               update_object_attr(W0, id, u[1], u[2]))

Init ==
    /\ models = EmptyTree
    /\ projects = EmptyTree
    /\ now = 1
    /\ last = NoCall
    /\ obj = NoRecord
    /\ olast = NoMethod
    /\ arg = NoInput
    /\ res = NoResult
    /\ store = Connected

Next ==
    \/ AddModel
    \/ RemoveModel
    \/ AddProject
    \/ RemoveProject
    \/ MoveModelToProject
    \/ UpdateObjectAttr

Spec == Init /\ [][Next]_vars

\* a call succeeded: nothing reached the caller and no nested call aborted
Succeeded(c) == ~c.raised /\ "abort" \notin Range(c.evs)

\* only add, remove and move calls, and only those that succeed
NextSucceed ==
    /\ \/ AddModel
       \/ RemoveModel
       \/ AddProject
       \/ RemoveProject
       \/ MoveModelToProject
    /\ Succeeded(last')

SpecSucceed == Init /\ [][NextSucceed]_vars

\* projects and models are added and their attributes updated, nothing is
\* removed or moved
NextUpdate ==
    \/ AddModel
    \/ AddProject
    \/ UpdateObjectAttrAny

SpecUpdate == Init /\ [][NextUpdate]_vars

(***************************************************************************)
(* The connection life cycle: Depot.__init__ finishes by validating the    *)
(* root objects of the storage it was pointed at (a new file, or one that  *)
(* an earlier session left), the connection is closed and reset, and       *)
(* projects and models are added while it is open.                         *)
(***************************************************************************)
ConnCall(op, args, r) ==
    [op |-> op, args |-> args, pre_models |-> models, pre_projects |-> projects,
     pre_now |-> now, evs |-> r.w.evs, raised |-> r.exc, pre_store |-> store]

ConnFinish(op, args, r, phase) ==
    /\ models' = r.w.models
    /\ projects' = r.w.projects
    /\ store' = [connected |-> r.w.connected, db |-> r.w.db, root |-> r.w.root,
                 phase |-> phase]
    /\ last' = ConnCall(op, args, r)
    /\ UNCHANGED <<now, obj, olast, arg, res>>

\* the last statement of Depot.__init__
DepotInit ==
    /\ store.phase = "init"
    /\ ConnFinish("__init__", <<>>,
                  Ok(ValidateRootObjects(Conn(store, models, projects), RootKeys)),
                  "ready")

CloseDbConnection ==
    /\ store.phase = "ready"
    /\ ConnFinish("close_db_connection", <<>>,
                  Ok(close_db_connection(Conn(store, models, projects))), "ready")

ResetConnection ==
    /\ store.phase = "ready"
    /\ \E opens \in BOOLEAN :
          ConnFinish("reset_connection", [opens |-> opens],
                     reset_connection(Conn(store, models, projects), opens), "ready")

\* the storage Depot.__init__ finds: any of the two keys may be missing, and
\* an index that is there may hold what an earlier session stored
StoredProjects == {EmptyTree, Put(EmptyTree, ProjectId(NewProject("p1", "None")),
                                  NewProject("p1", "None"))}

InitConnect ==
    /\ \E root \in SUBSET Range(RootKeys) :
          /\ store = [connected |-> TRUE, db |-> "open", root |-> root, phase |-> "init"]
          /\ projects \in IF "projects" \in root THEN StoredProjects ELSE {EmptyTree}
    /\ models = EmptyTree
    /\ now = 1
    /\ last = NoCall
    /\ obj = NoRecord
    /\ olast = NoMethod
    /\ arg = NoInput
    /\ res = NoResult

NextConnect ==
    \/ DepotInit
    \/ CloseDbConnection
    \/ ResetConnection
    \/ (store.phase = "ready" /\ store.connected /\ AddProject)
    \/ (store.phase = "ready" /\ store.connected /\ AddModel)

SpecConnect == InitConnect /\ [][NextConnect]_vars

(***************************************************************************)
(* The hash as a function: digests of MaxDigestBytes bytes with every      *)
(* combination of extreme and middle byte values, and the tuples the       *)
(* records of the domain are hashed from.                                  *)
(***************************************************************************)
DigestBytes == {0, 1, 127, 128, 255}

HashInput(kind, bytes, val) == [kind |-> kind, bytes |-> bytes, val |-> val]

HashInputs ==
    {HashInput("digest", d, <<>>) : d \in [1..MaxDigestBytes -> DigestBytes]}
        \cup {HashInput("val", <<>>, <<Str(n)>>) : n \in Names}
        \cup {HashInput("val", <<>>, <<Str(o), Str(n), Stamp(t)>>) :
                  o \in Payloads, n \in Names, t \in 1..MaxTime}

CallCInt32 ==
    /\ arg.kind = "digest"
    /\ res' = [fn |-> "c_int32", val |-> CInt32OfDigest(arg.bytes)]
    /\ UNCHANGED <<models, projects, now, last, obj, olast, store, arg>>

CallProduceHash ==
    /\ arg.kind = "val"
    /\ res' = [fn |-> "produce_hash", val |-> ProduceHash(arg.val)]
    /\ UNCHANGED <<models, projects, now, last, obj, olast, store, arg>>

InitHash ==
    /\ models = EmptyTree
    /\ projects = EmptyTree
    /\ now = 1
    /\ last = NoCall
    /\ obj = NoRecord
    /\ olast = NoMethod
    /\ store = Connected
    /\ arg \in HashInputs
    /\ res = NoResult

NextHash ==
    \/ CallCInt32
    \/ CallProduceHash

SpecHash == InitHash /\ [][NextHash]_vars

(***************************************************************************)
(* resolve_search as a function: an operator of _op_lookup followed by a   *)
(* bare value, the values being ints, floats, True, None, timestamps, the  *)
(* empty value and words.                                                  *)
(***************************************************************************)
ValueInputs ==
    {"5", "12", "5.46", "0.5", "True", "None", "", "x", "p1", "me", "user", "tuned",
     "supervised", "unsupervised", "builtins", IsoFormat(1), IsoFormat(2)}

ExprInputs == {[kind |-> "expr", op |-> op, value |-> v] : op \in OpLookup, v \in ValueInputs}

CallResolveSearch ==
    /\ arg.kind = "expr"
    /\ LET r == ResolveSearch(Chars[arg.op] \o Chars[arg.value])
       IN  res' = [fn |-> "resolve_search", exc |-> r.exc, cmp |-> r.cmp, lit |-> r.lit]
    /\ UNCHANGED <<models, projects, now, last, obj, olast, store, arg>>

InitResolve ==
    /\ models = EmptyTree
    /\ projects = EmptyTree
    /\ now = 1
    /\ last = NoCall
    /\ obj = NoRecord
    /\ olast = NoMethod
    /\ store = Connected
    /\ arg \in ExprInputs
    /\ res = NoResult

\* resolve_search on the operator followed by the value in single quotes
CallResolveSearchQuoted ==
    /\ arg.kind = "expr"
    /\ LET r == ResolveSearch(Chars[arg.op] \o <<"'">> \o Chars[arg.value] \o <<"'">>)
       IN  res' = [fn |-> "resolve_search_quoted", exc |-> r.exc, cmp |-> r.cmp, lit |-> r.lit]
    /\ UNCHANGED <<models, projects, now, last, obj, olast, store, arg>>

NextResolve ==
    \/ CallResolveSearch
    \/ CallResolveSearchQuoted

SpecResolve == InitResolve /\ [][NextResolve]_vars

(***************************************************************************)
(* Comparing two records of one kind: Models that differ in any of their   *)
(* fields and in their ModelMeta, Projects that differ in name,            *)
(* description and member list.                                            *)
(***************************************************************************)
ComparedModels ==
    LET built == {NewModel(o, n, ModelMeta(md), ts) :
                     o \in Payloads, n \in Names,
                     md \in {PlainMeta, OtherMeta, ShadowMeta}, ts \in 1..MaxTime}
    IN  built \cup {ModelSetItem(m, "creator", "me").obj : m \in built}

ComparedProjects ==
    LET built == {NewProject(n, d) : n \in Names, d \in Descriptions}
    IN  built \cup {ProjectAddModel(p, 1).obj : p \in built}

PairInputs ==
    {[kind |-> "pair", of |-> "model", a |-> a, b |-> b] :
        a \in ComparedModels, b \in ComparedModels}
        \cup {[kind |-> "pair", of |-> "project", a |-> a, b |-> b] :
                  a \in ComparedProjects, b \in ComparedProjects}

CallEq ==
    /\ arg.kind = "pair"
    /\ res' = [fn |-> "__eq__", val |-> DataObjectEq(arg.of, arg.a, arg.b)]
    /\ UNCHANGED <<models, projects, now, last, obj, olast, store, arg>>

CallLt ==
    /\ arg.kind = "pair"
    /\ res' = [fn |-> "__lt__", val |-> DataObjectLt(arg.of, arg.a, arg.b)]
    /\ UNCHANGED <<models, projects, now, last, obj, olast, store, arg>>

InitCompare ==
    /\ models = EmptyTree
    /\ projects = EmptyTree
    /\ now = 1
    /\ last = NoCall
    /\ obj = NoRecord
    /\ olast = NoMethod
    /\ store = Connected
    /\ arg \in PairInputs
    /\ res = NoResult

NextCompare ==
    \/ CallEq
    \/ CallLt

SpecCompare == InitCompare /\ [][NextCompare]_vars

(***************************************************************************)
(* move_model_to_project seen statement by statement: the call up to the   *)
(* return of add_model, and the call of remove_model.  Between the two the *)
(* indexes are what a reader of the Store sees; the Depot takes no other   *)
(* call meanwhile.                                                         *)
(***************************************************************************)
Moving == last.op = "move_model_to_project.add_model"

MoveBegin ==
    /\ ~Moving
    /\ \E id \in IdInputs, target \in TargetInputs :
          /\ now < MaxTime
          /\ LET r == MoveAdd(W0, id, target)
             IN  Finish(IF r.exc THEN "move_model_to_project"
                        ELSE "move_model_to_project.add_model",
                        [id |-> id, target |-> target], r)

MoveEnd ==
    /\ Moving
    /\ LET r == remove_model(W0, last.args.id)
       IN  /\ models' = r.w.models
           /\ projects' = r.w.projects
           /\ now' = r.w.now
           /\ last' = [last EXCEPT !.op = "move_model_to_project",
                                   !.evs = @ \o r.w.evs, !.raised = r.exc]
           /\ UNCHANGED <<obj, olast, store, arg, res>>

NextMove ==
    \/ (~Moving /\ AddProject)
    \/ (~Moving /\ AddModel)
    \/ (~Moving /\ RemoveProject)
    \/ MoveBegin
    \/ MoveEnd

SpecMove == Init /\ [][NextMove]_vars

(***************************************************************************)
(* update_object_attr naming the field models of a Project, which is not   *)
(* among Project's static fields, with a list as the value.                *)
(***************************************************************************)
MemberListInputs == {<<>>, <<1>>}

UpdateObjectAttrList ==
    \E id \in IdInputs, val \in MemberListInputs :
        Finish("update_object_attr", [id |-> id, attr |-> "models", val |-> val],
               update_object_attr(W0, id, "models", val))

NextIntegrity ==
    \/ AddProject
    \/ AddModel
    \/ RemoveModel
    \/ UpdateObjectAttr
    \/ UpdateObjectAttrList

SpecIntegrity == Init /\ [][NextIntegrity]_vars

(***************************************************************************)
(* The operations under safe_transaction on a Store whose commit can       *)
(* fail: each call is given the number of its commit that raises.          *)
(***************************************************************************)
CommitFaults == 0..MaxFailAt

Wf(k) == FaultyWorld(models, projects, now, k)

AddModelFaulty ==
    \E m \in {NewModel(o, n, ModelMeta(PlainMeta), now) : o \in Payloads, n \in Names},
       k \in CommitFaults :
        /\ ModelId(m) \in DOMAIN models \/ Cardinality(DOMAIN models) < MaxModels
        /\ Finish("add_model", [model |-> m, failat |-> k], add_model(Wf(k), m))

RemoveModelFaulty ==
    \E id \in IdInputs, k \in CommitFaults :
        Finish("remove_model", [id |-> id, failat |-> k], remove_model(Wf(k), id))

AddProjectFaulty ==
    \E p \in ProjectInputs, k \in CommitFaults :
        Finish("add_project", [project |-> p, failat |-> k], add_project(Wf(k), p))

RemoveProjectFaulty ==
    \E id \in ProjectIdInputs, target \in {NoTarget, ByName("p1")}, k \in CommitFaults :
        /\ now + Moves(id, target) <= MaxTime
        /\ Finish("remove_project", [id |-> id, target |-> target, failat |-> k],
                  remove_project(Wf(k), id, target))

UpdateObjectAttrFaulty ==
    \E id \in IdInputs, u \in {<<"project_description", "d">>}, k \in CommitFaults :
        Finish("update_object_attr", [id |-> id, attr |-> u[1], val |-> u[2], failat |-> k],
               update_object_attr(Wf(k), id, u[1], u[2]))

NextFaulty ==
    \/ AddModelFaulty
    \/ RemoveModelFaulty
    \/ AddProjectFaulty
    \/ RemoveProjectFaulty
    \/ UpdateObjectAttrFaulty

SpecFaulty == Init /\ [][NextFaulty]_vars

\* remove_project where the loop may move every member of a full project
RemoveProjectMoving ==
    \E id \in ProjectIdInputs, target \in {NoTarget} \cup TargetInputs :
        /\ now + Moves(id, target) <= MaxLoopTime
        /\ Finish("remove_project", [id |-> id, target |-> target],
                  remove_project(W0, id, target))

\* projects are filled and removed, their members deleted or moved
NextLoop ==
    \/ AddProject
    \/ AddModel
    \/ RemoveProjectMoving

SpecLoop == Init /\ [][NextLoop]_vars

(***************************************************************************)
(* The round trip: add_model(m), then remove_model(m.id), then add_model(m)*)
(* again, by one caller with no other call in between.  last keeps the     *)
(* indexes of before the first add and collects the events of the calls.   *)
(***************************************************************************)
InRound == last.op \in {"round_trip.add_model", "round_trip.remove_model"}

RoundAdd ==
    /\ ~InRound
    /\ \E m \in ModelInputs :
          /\ ModelId(m) \in DOMAIN models \/ Cardinality(DOMAIN models) < MaxModels
          /\ LET r == add_model(W0, m)
             IN  Finish(IF r.w.evs = <<"info", "commit", "success">>
                        THEN "round_trip.add_model" ELSE "add_model",
                        [model |-> m], r)

RoundRemove ==
    /\ last.op = "round_trip.add_model"
    /\ LET r == remove_model(W0, ModelId(last.args.model))
       IN  /\ models' = r.w.models
           /\ projects' = r.w.projects
           /\ now' = r.w.now
           /\ last' = [last EXCEPT !.op = "round_trip.remove_model",
                                   !.evs = @ \o r.w.evs, !.raised = r.exc]
           /\ UNCHANGED <<obj, olast, store, arg, res>>

RoundAddAgain ==
    /\ last.op = "round_trip.remove_model"
    /\ LET r == add_model(W0, last.args.model)
       IN  /\ models' = r.w.models
           /\ projects' = r.w.projects
           /\ now' = r.w.now
           /\ last' = [last EXCEPT !.op = "round_trip",
                                   !.evs = @ \o r.w.evs, !.raised = r.exc]
           /\ UNCHANGED <<obj, olast, store, arg, res>>

NextRound ==
    \/ (~InRound /\ AddProject)
    \/ (~InRound /\ RemoveModel)
    \/ RoundAdd
    \/ RoundRemove
    \/ RoundAddAgain

SpecRound == Init /\ [][NextRound]_vars

\* the property project_names is read
ProjectNames ==
    LET r == ReadCall(W0, [val |-> project_names(W0), exc |-> FALSE])
    IN  /\ last' = [op |-> "project_names", args |-> <<>>,
                    pre_models |-> models, pre_projects |-> projects,
                    pre_now |-> now, evs |-> r.w.evs, raised |-> r.exc,
                    ret |-> r.val]
        /\ models' = r.w.models
        /\ projects' = r.w.projects
        /\ now' = r.w.now
        /\ UNCHANGED <<obj, olast, store, arg, res>>

\* projects come and go, with and without models, and the names are read
NextNames ==
    \/ AddProject
    \/ AddModel
    \/ RemoveProject
    \/ ProjectNames

SpecNames == Init /\ [][NextNames]_vars

(***************************************************************************)
(* Searching: the filters a caller passes, each one a field name, an       *)
(* operator and a value (n: the value as a clock reading, for timestamp);  *)
(* the expression handed to search_models is the operator followed by the  *)
(* value.                                                                  *)
(***************************************************************************)
Filter(key, op, value, n) == [key |-> key, op |-> op, value |-> value, n |-> n]

FilterInputs ==
    LET sup == Filter("learning_type", "==", "supervised", 0)
        ge == Filter("learning_type", ">=", "tuned", 0)
        user == Filter("creator", "==", "user", 0)
        bogus == Filter("bogus", "==", "x", 0)
        ts == Filter("timestamp", "<", IsoFormat(2), 2)
    IN  { <<>>, <<sup>>, <<ge>>, <<bogus>>, <<ts>>, <<sup, user>>, <<user, bogus>>,
          <<ge, ts>> }

\* the keyword arguments of the call: (field name, expression) pairs
Kwargs(filters) ==
    [i \in 1..Len(filters) |->
        <<filters[i].key, Chars[filters[i].op] \o Chars[filters[i].value]>>]

SearchModels ==
    \E view_only \in BOOLEAN, filters \in FilterInputs :
        LET r == ReadCall(W0, search_models(W0, view_only, NoTarget, Kwargs(filters)))
        IN  /\ last' = [op |-> "search_models",
                        args |-> [view_only |-> view_only, project |-> NoTarget,
                                  filters |-> filters],
                        pre_models |-> models, pre_projects |-> projects,
                        pre_now |-> now, evs |-> r.w.evs, raised |-> r.exc, ret |-> r.val]
            /\ models' = r.w.models
            /\ projects' = r.w.projects
            /\ now' = r.w.now
            /\ UNCHANGED <<obj, olast, store, arg, res>>

\* search_models with the project argument given, a name or an id
SearchModelsInProject ==
    \E view_only \in BOOLEAN, project \in TargetInputs,
       filters \in {f \in FilterInputs : \A i \in 1..Len(f) : f[i].op = "=="} :
        LET r == ReadCall(W0, search_models(W0, view_only, project, Kwargs(filters)))
        IN  /\ last' = [op |-> "search_models_project",
                        args |-> [view_only |-> view_only, project |-> project,
                                  filters |-> filters],
                        pre_models |-> models, pre_projects |-> projects,
                        pre_now |-> now, evs |-> r.w.evs, raised |-> r.exc, ret |-> r.val]
            /\ models' = r.w.models
            /\ projects' = r.w.projects
            /\ now' = r.w.now
            /\ UNCHANGED <<obj, olast, store, arg, res>>

\* projects and models are added, and the model index is searched
NextSearch ==
    \/ AddProject
    \/ AddModel
    \/ SearchModels
    \/ SearchModelsInProject
    \/ ProjectNames

SpecSearch == Init /\ [][NextSearch]_vars

(***************************************************************************)
(* A record in a caller's hands: update_field, get_field and the member    *)
(* list methods called on a Model or a Project that is in no index.  obj   *)
(* carries the record, the identity it had when constructed, whether every *)
(* update that went through named a dynamic field, and the ids a list      *)
(* should hold (appended when new, dropped when removed).                  *)
(***************************************************************************)
\* a list a caller got from get_field: its elements, and whether it is the
\* very list object the record stores
NoList == [list |-> <<>>, shared |-> FALSE, held |-> FALSE]

Held(kind, rec, id) ==
    [kind |-> kind, rec |-> rec, id0 |-> id, dyn |-> TRUE, members |-> <<>>,
     got |-> NoList]

RecordInputs ==
    {Held("model", NewModel("a", n, ModelMeta(PlainMeta), 1),
          ModelId(NewModel("a", n, ModelMeta(PlainMeta), 1))) : n \in Names}
        \cup {Held("model", NewModel("a", n, ModelMeta(ShadowMeta), 1),
                   ModelId(NewModel("a", n, ModelMeta(ShadowMeta), 1))) : n \in Names}
        \cup {Held("project", NewProject(n, "None"), ProjectId(NewProject(n, "None"))) :
                  n \in Names}

\* update_field(key, val) with a string value, and with a ModelMeta value
StringUpdates ==
    { <<"project_name", "">>, <<"project_name", "p1">>, <<"model_object", "b">>,
      <<"timestamp", "x">>, <<"creator", "me">>, <<"learning_type", "unsupervised">>,
      <<"project_description", "d">>, <<"bogus", "x">> }
MetaUpdates == {ModelMeta(PlainMeta), ModelMeta(ShadowMeta)}

GetKeys ==
    {"project_name", "model_object", "timestamp", "creator", "meta_data",
     "learning_type", "project_description", "bogus"}

MemberIds == 1..MaxMembers

StaticFieldsOf(kind) == IF kind = "model" THEN ModelStaticFields ELSE ProjectStaticFields

Method(op, key, val, id, raised, ret) ==
    [op |-> op, key |-> key, val |-> val, id |-> id, pre |-> obj.rec,
     raised |-> raised, ret |-> ret]

\* DataObject.update_field
SetField(key, val) ==
    LET r == IF obj.kind = "model" THEN ModelSetItem(obj.rec, key, val)
             ELSE ProjectSetItem(obj.rec, key, val)
    IN  /\ obj' = [obj EXCEPT !.rec = r.obj,
                              !.dyn = @ /\ (r.exc \/ key \notin StaticFieldsOf(obj.kind))]
        /\ olast' = Method("update_field", key, val, 0, r.exc, "")
        /\ UNCHANGED <<models, projects, now, last, store, arg, res>>

CallUpdateField ==
    /\ obj.kind # "none"
    /\ \/ \E u \in StringUpdates : SetField(u[1], u[2])
       \/ \E v \in MetaUpdates : SetField("meta_data", v)

\* DataObject.get_field
CallGetField ==
    /\ obj.kind # "none"
    /\ \E key \in GetKeys :
          LET r == IF obj.kind = "model" THEN ModelGetItem(obj.rec, key)
                   ELSE ProjectGetItem(obj.rec, key)
          IN  /\ olast' = Method("get_field", key, "", 0, r.exc, r.val)
              /\ UNCHANGED <<models, projects, now, last, obj, store, arg, res>>

\* Project.add_model
CallProjectAddModel ==
    /\ obj.kind = "project"
    /\ \E id \in MemberIds :
          LET r == ProjectAddModel(obj.rec, id)
          IN  /\ obj' = [obj EXCEPT !.rec = r.obj,
                                    !.members = IF id \in Range(@) THEN @ ELSE Append(@, id)]
              /\ olast' = Method("add_model", "", "", id, r.exc, "")
              /\ UNCHANGED <<models, projects, now, last, store, arg, res>>

\* Project.remove_model
CallProjectRemoveModel ==
    /\ obj.kind = "project"
    /\ \E id \in MemberIds :
          LET r == ProjectRemoveModel(obj.rec, id)
          IN  /\ obj' = [obj EXCEPT !.rec = r.obj,
                                    !.members = SelectSeq(@, LAMBDA x : x # id)]
              /\ olast' = Method("remove_model", "", "", id, r.exc, "")
              /\ UNCHANGED <<models, projects, now, last, store, arg, res>>

\* get_field("models") on a Project, the caller keeping the returned list
CallGetModels ==
    /\ obj.kind = "project"
    /\ obj' = [obj EXCEPT !.got = GetFieldList(obj.rec, "models")]
    /\ olast' = Method("get_field", "models", "", 0, FALSE, "")
    /\ UNCHANGED <<models, projects, now, last, store, arg, res>>

\* what a caller can do to a list: append, pop, remove, clear; a mutation of
\* the list object the Project stores is a mutation of the Project's field
ListMutations(l) ==
    {Append(l, id) : id \in MemberIds}
        \cup (IF l = <<>> THEN {} ELSE {SubSeq(l, 1, Len(l) - 1)})
        \cup {ListRemove(l, id) : id \in Range(l)}
        \cup {<<>>}

MutateReturnedList ==
    /\ obj.kind = "project"
    /\ obj.got.held
    /\ Len(obj.got.list) <= MaxMembers
    /\ \E l \in ListMutations(obj.got.list) :
          /\ obj' = [obj EXCEPT !.got.list = l,
                                !.rec.models = IF obj.got.shared THEN l ELSE @]
          /\ olast' = Method("list_mutation", "models", "", 0, FALSE, "")
    /\ UNCHANGED <<models, projects, now, last, store, arg, res>>

\* a Project whose members come and go while a caller reads and mutates the
\* list get_field gave it
NextCopy ==
    \/ CallProjectAddModel
    \/ CallProjectRemoveModel
    \/ CallGetModels
    \/ MutateReturnedList

InitRecord ==
    /\ models = EmptyTree
    /\ projects = EmptyTree
    /\ now = 1
    /\ last = NoCall
    /\ obj \in RecordInputs
    /\ olast = NoMethod
    /\ arg = NoInput
    /\ res = NoResult
    /\ store = Connected

NextRecord ==
    \/ CallUpdateField
    \/ CallGetField
    \/ CallProjectAddModel
    \/ CallProjectRemoveModel

SpecRecord == InitRecord /\ [][NextRecord]_vars

SpecCopy == InitRecord /\ [][NextCopy]_vars

(***************************************************************************)
(* Vocabulary of the properties.                                           *)
(***************************************************************************)
PidOf(name) == ProduceHash(<<Str(name)>>)
Count(s, x) == Cardinality({i \in 1..Len(s) : s[i] = x})
TargetPid(target) == IF target.kind = "str" THEN PidOf(target.name) ELSE target.id

\* invariants I3 and I4 of the two indexes ms, ps
ReferentialIntegrity(ms, ps) ==
    /\ \A k \in DOMAIN ms :
          LET pid == PidOf(ms[k].project_name)
          IN  pid \in DOMAIN ps /\ ModelId(ms[k]) \in Range(ps[pid].models)
    /\ \A pid \in DOMAIN ps :
          \A i \in Range(ps[pid].models) :
              i \in DOMAIN ms /\ PidOf(ms[i].project_name) = pid

\* both indexes are as they were before the last call
Unchanged == models = last.pre_models /\ projects = last.pre_projects

(***************************************************************************)
(* C1. Referential integrity: after any sequence of add_model,             *)
(* remove_model, add_project, remove_project and move_model_to_project     *)
(* calls that each succeed, every model of the model index names an        *)
(* existing project whose member list holds its id, and every member of a  *)
(* member list is a key of the model index whose model names that project. *)
(* Stated under SpecSucceed, whose behaviours are exactly those sequences. *)
(***************************************************************************)
C1_ReferentialIntegrity == ReferentialIntegrity(models, projects)

(***************************************************************************)
(* C2. add_model(m) while no project with m's project_name is in the       *)
(* project index: nothing reaches the caller, m.id is not in the model     *)
(* index afterwards, and both indexes are as before the call.              *)
(***************************************************************************)
C2_AddModelNoProject ==
    (/\ last.op = "add_model"
     /\ PidOf(last.args.model.project_name) \notin DOMAIN last.pre_projects)
    => /\ ~last.raised
       /\ ModelId(last.args.model) \notin DOMAIN models
       /\ Unchanged

(***************************************************************************)
(* C3. add_model(m) while the model index already holds the key m.id fails *)
(* silently and never overwrites: nothing reaches the caller, the record   *)
(* stored under m.id is the one stored before, and afterwards m.id occurs  *)
(* exactly once in the member list of the stored record's project.         *)
(***************************************************************************)
C3_AddModelDuplicate ==
    (/\ last.op = "add_model"
     /\ ModelId(last.args.model) \in DOMAIN last.pre_models)
    => LET id == ModelId(last.args.model)
       IN  /\ ~last.raised
           /\ id \in DOMAIN models
           /\ models[id] = last.pre_models[id]
           /\ LET pid == PidOf(models[id].project_name)
              IN  pid \in DOMAIN projects /\ Count(projects[pid].models, id) = 1

(***************************************************************************)
(* C4. A successful add_model(m) is atomic over both indexes: m.id was in  *)
(* neither place before, afterwards m is stored under m.id and m.id is the *)
(* last element of its project's member list, the earlier members keeping  *)
(* their order, and the call commits once, after both changes.             *)
(***************************************************************************)
C4_AddModelAtomic ==
    (last.op = "add_model" /\ Succeeded(last))
    => LET id == ModelId(last.args.model)
           pid == PidOf(last.args.model.project_name)
       IN  /\ id \notin DOMAIN last.pre_models
           /\ pid \in DOMAIN last.pre_projects
           /\ id \notin Range(last.pre_projects[pid].models)
           /\ models = Put(last.pre_models, id, last.args.model)
           /\ projects = [last.pre_projects EXCEPT ![pid].models = Append(@, id)]
           /\ last.evs = <<"info", "commit", "success">>

\* a successful add into a project that already had a member
C4_Witness ==
    /\ last.op = "add_model"
    /\ Succeeded(last)
    /\ Len(last.pre_projects[PidOf(last.args.model.project_name)].models) >= 1

(***************************************************************************)
(* C5. remove_model(id) for an id in the model index whose project is in   *)
(* the project index deletes exactly that key and removes exactly that id  *)
(* from the project's member list; nothing else changes.                   *)
(***************************************************************************)
C5_RemoveModel ==
    (/\ last.op = "remove_model"
     /\ last.args.id \in DOMAIN last.pre_models
     /\ PidOf(last.pre_models[last.args.id].project_name) \in DOMAIN last.pre_projects
     /\ PidOf(ModelGetField(last.pre_models[last.args.id], "project_name"))
            \in DOMAIN last.pre_projects)
    => LET id == last.args.id
           pid == PidOf(last.pre_models[id].project_name)
       IN  /\ models = Del(last.pre_models, id)
           /\ projects = [last.pre_projects EXCEPT ![pid].models = ListRemove(@, id)]

(***************************************************************************)
(* C6. A call that targets an identity absent from its index is a silent   *)
(* no-op: remove_model(id) with id not in the model index,                 *)
(* remove_project(id) with id not in the project index and                 *)
(* update_object_attr(id, ...) with id in neither index raise nothing and  *)
(* leave both indexes unchanged.                                           *)
(***************************************************************************)
AbsentTarget ==
    \/ last.op = "remove_model" /\ last.args.id \notin DOMAIN last.pre_models
    \/ last.op = "remove_project" /\ last.args.id \notin DOMAIN last.pre_projects
    \/ /\ last.op = "update_object_attr"
       /\ last.args.id \notin DOMAIN last.pre_models \cup DOMAIN last.pre_projects

C8_RemoveProject ==
    (/\ last.op = "remove_project"
     /\ last.args.target.kind = "none"
     /\ last.args.id \in DOMAIN last.pre_projects)
    => LET p == last.args.id
       IN  /\ p \notin DOMAIN projects
           /\ \A i \in Range(last.pre_projects[p].models) : i \notin DOMAIN models
           /\ \A q \in DOMAIN last.pre_projects \ {p} :
                  q \in DOMAIN projects /\ projects[q] = last.pre_projects[q]
           /\ \A k \in DOMAIN last.pre_models :
                  PidOf(last.pre_models[k].project_name) # p
                  => k \in DOMAIN models /\ models[k] = last.pre_models[k]

(***************************************************************************)
(* C9. remove_project(p1, move_to_new_project = p2), the target given by   *)
(* name or by id and denoting a project p2 of the index other than p1:     *)
(* afterwards p1 is gone, none of its old member ids is in the model       *)
(* index, and p2's member list is its old list followed by one new id per  *)
(* moved model, in p1's member order, each new model having the payload    *)
(* and Meta of the old one and project_name p2.                            *)
(***************************************************************************)
C9_RemoveProjectMove ==
    (/\ last.op = "remove_project"
     /\ last.args.target.kind # "none"
     /\ last.args.id \in DOMAIN last.pre_projects
     /\ TargetPid(last.args.target) \in DOMAIN last.pre_projects
     /\ TargetPid(last.args.target) # last.args.id)
    => LET p1 == last.args.id
           p2 == TargetPid(last.args.target)
           old == last.pre_projects[p1].models
           old2 == last.pre_projects[p2].models
       IN  /\ p1 \notin DOMAIN projects
           /\ \A i \in Range(old) : i \notin DOMAIN models
           /\ p2 \in DOMAIN projects
           /\ Len(projects[p2].models) = Len(old2) + Len(old)
           /\ SubSeq(projects[p2].models, 1, Len(old2)) = old2
           /\ \A j \in 1..Len(old) :
                  LET nid == projects[p2].models[Len(old2) + j]
                  IN  /\ nid \in DOMAIN models
                      /\ nid \notin DOMAIN last.pre_models
                      /\ old[j] \in DOMAIN last.pre_models
                      /\ models[nid].model_object = last.pre_models[old[j]].model_object
                      /\ models[nid].meta_data = last.pre_models[old[j]].meta_data
                      /\ models[nid].project_name = last.pre_projects[p2].project_name

(***************************************************************************)
(* C10. move_model_to_project(id, p2) for a model id of the model index    *)
(* that is in the member list of a project p1, and a target p2 of the      *)
(* project index: a new model with another identity is inserted, id is no  *)
(* longer a key of the model index, p2's member list holds the new         *)
(* identity and p1's member list no longer holds id.                       *)
(***************************************************************************)
C10_MoveModel ==
    (/\ last.op = "move_model_to_project"
     /\ last.args.id \in DOMAIN last.pre_models
     /\ TargetPid(last.args.target) \in DOMAIN last.pre_projects
     /\ \E p1 \in DOMAIN last.pre_projects :
            last.args.id \in Range(last.pre_projects[p1].models))
    => LET id == last.args.id
           p2 == TargetPid(last.args.target)
       IN  /\ id \notin DOMAIN models
           /\ \E nid \in DOMAIN models \ DOMAIN last.pre_models :
                  nid # id /\ p2 \in DOMAIN projects /\ nid \in Range(projects[p2].models)
           /\ \A p1 \in DOMAIN projects : id \notin Range(projects[p1].models)

\* the mutating operations of Depot, and those defined under safe_transaction
MutatingOps ==
    {"add_model", "remove_model", "add_project", "remove_project",
     "move_model_to_project", "update_object_attr"}
WrappedOps == MutatingOps \ {"move_model_to_project"}

\* the body of the last call, a wrapped operation, failed: its wrapper's
\* entry, the last of the call, is the failure entry
BodyFailed == last.op \in WrappedOps /\ last.evs # <<>> /\ last.evs[Len(last.evs)] = "error"

(***************************************************************************)
(* C11. No mutating Depot operation ever lets an exception reach its       *)
(* caller, whatever the arguments and the state of the indexes.            *)
(***************************************************************************)
C11_NothingReachesCaller == last.op \in MutatingOps => ~last.raised

C13_OneStoreAction ==
    last.op \in MutatingOps =>
        \/ Count(last.evs, "commit") = 1 /\ Count(last.evs, "abort") = 0
        \/ Count(last.evs, "commit") = 0 /\ Count(last.evs, "abort") = 1

(***************************************************************************)
(* C14. update_object_attr(id, attr, val) for an id of an index and attr a *)
(* static field of that record fails silently: nothing reaches the caller, *)
(* the record is still stored under id, get_field(attr) gives the value it *)
(* gave before, and the record's identity is the one it had before.        *)
(***************************************************************************)
C14_UpdateStaticField ==
    LET id == last.args.id
        attr == last.args.attr
    IN  /\ (/\ last.op = "update_object_attr"
            /\ id \in DOMAIN last.pre_models
            /\ attr \in ModelStaticFields)
           => /\ ~last.raised
              /\ DOMAIN models = DOMAIN last.pre_models
              /\ ModelGetField(models[id], attr) = ModelGetField(last.pre_models[id], attr)
              /\ ModelId(models[id]) = ModelId(last.pre_models[id])
        /\ (/\ last.op = "update_object_attr"
            /\ id \notin DOMAIN last.pre_models
            /\ id \in DOMAIN last.pre_projects
            /\ attr \in ProjectStaticFields)
           => /\ ~last.raised
              /\ DOMAIN projects = DOMAIN last.pre_projects
              /\ ProjectGetField(projects[id], attr)
                     = ProjectGetField(last.pre_projects[id], attr)
              /\ ProjectId(projects[id]) = ProjectId(last.pre_projects[id])

(***************************************************************************)
(* C15. update_object_attr(model_id, attr, val) for attr that is no field  *)
(* of the Model itself but a field of its ModelMeta: the Meta's attr       *)
(* becomes val and the call commits; nothing else of either index changes, *)
(* the model's identity is as before and get_field(attr) gives val.        *)
(***************************************************************************)
C15_UpdateMetaField ==
    LET id == last.args.id
        attr == last.args.attr
    IN  (/\ last.op = "update_object_attr"
         /\ id \in DOMAIN last.pre_models
         /\ attr \notin ModelFields
         /\ attr \in DOMAIN last.pre_models[id].meta_data)
        => /\ ~last.raised
           /\ last.evs = <<"info", "commit", "success">>
           /\ models = [last.pre_models EXCEPT ![id].meta_data[attr] = last.args.val]
           /\ projects = last.pre_projects
           /\ ModelId(models[id]) = ModelId(last.pre_models[id])
           /\ ModelGetField(models[id], attr) = last.args.val

\* an update of a Meta field to a value it did not have
C15_Witness ==
    /\ last.op = "update_object_attr"
    /\ last.args.id \in DOMAIN last.pre_models
    /\ last.args.attr \notin ModelFields
    /\ last.args.attr \in DOMAIN last.pre_models[last.args.id].meta_data
    /\ last.pre_models[last.args.id].meta_data[last.args.attr] # last.args.val

\* a sequence without repeated elements
NoDuplicates(s) == \A i, j \in 1..Len(s) : s[i] = s[j] => i = j

(***************************************************************************)
(* C16. Immutability: update_field(key, v) with key a declared static      *)
(* field of the record (Model: timestamp, project_name, model_object;      *)
(* Project: project_name) always fails with the immutable-field error and  *)
(* leaves the record as it was, whatever keys the Model's ModelMeta holds. *)
(***************************************************************************)
C16_Immutability ==
    (/\ olast.op = "update_field"
     /\ olast.key \in StaticFieldsOf(obj.kind))
    => /\ olast.raised
       /\ obj.rec = olast.pre

(***************************************************************************)
(* C17. Identity stability: after any sequence of update_field calls of    *)
(* which every one that went through named a dynamic field (a field of the *)
(* ModelMeta included), the id of a Model is the id it had at construction.*)
(***************************************************************************)
C17_IdentityStability ==
    (obj.kind = "model" /\ obj.dyn) => ModelId(obj.rec) = obj.id0

(***************************************************************************)
(* C18. get_field(key) on a Model gives the Model's own field whenever the *)
(* Model itself has key, the ModelMeta's field only when the Model lacks   *)
(* key, and fails with the no-such-field error when neither has key.       *)
(***************************************************************************)
C18_FieldResolutionOrder ==
    (olast.op = "get_field" /\ obj.kind = "model")
    => IF olast.key \in ModelFields
       THEN ~olast.raised /\ olast.ret = obj.rec[olast.key]
       ELSE IF olast.key \in DOMAIN obj.rec.meta_data
       THEN ~olast.raised /\ olast.ret = obj.rec.meta_data[olast.key]
       ELSE olast.raised

(***************************************************************************)
(* C19. Project member list: add_model(id) fails and leaves the list as it *)
(* was when id is in it, otherwise appends id at the end; remove_model(id) *)
(* fails and leaves the list as it was when id is absent, otherwise removes*)
(* it; after any sequence of these calls the list holds the surviving ids  *)
(* in insertion order, without duplicates.                                 *)
(***************************************************************************)
C19_MemberList ==
    /\ obj.kind = "project"
       => /\ obj.rec.models = obj.members
          /\ NoDuplicates(obj.rec.models)
    /\ olast.op = "add_model"
       => IF olast.id \in Range(olast.pre.models)
          THEN olast.raised /\ obj.rec.models = olast.pre.models
          ELSE ~olast.raised /\ obj.rec.models = Append(olast.pre.models, olast.id)
    /\ olast.op = "remove_model"
       => IF olast.id \notin Range(olast.pre.models)
          THEN olast.raised /\ obj.rec.models = olast.pre.models
          ELSE /\ ~olast.raised
               /\ obj.rec.models = SelectSeq(olast.pre.models, LAMBDA x : x # olast.id)

\* an id in the middle of a list of three was removed, and the one removed
\* before it was added again: it now stands at the end
C19_Witness ==
    /\ obj.kind = "project"
    /\ olast.op = "add_model"
    /\ ~olast.raised
    /\ Len(olast.pre.models) = 2
    /\ obj.rec.models = <<3, 1, 2>>

\* the Model m passes the filter f: it has the field, and the field's value
\* stands in the relation to the filter's value
Satisfies(m, f) ==
    /\ ModelHasField(m, f.key)
    /\ LET v == ModelGetField(m, f.key)
       IN  IF f.key = "timestamp"
           THEN CASE f.op = "<" -> v < f.n
                  [] f.op = ">=" -> v >= f.n
                  [] f.op = "==" -> v = f.n
           ELSE CASE f.op = "==" -> v = f.value
                  [] f.op = ">=" -> ~LexLess(Chars[v], Chars[f.value])
                  [] f.op = "<" -> LexLess(Chars[v], Chars[f.value])

C21_SearchInProject ==
    (/\ last.op = "search_models_project"
     /\ TargetPid(last.args.project) \in DOMAIN projects) =>
        LET ret == last.ret
            fs == last.args.filters
            members == ProjectGetField(projects[TargetPid(last.args.project)], "models")
            Passes(k) == /\ k \in DOMAIN models
                         /\ \A i \in 1..Len(fs) : Satisfies(models[k], fs[i])
            hits == SelectSeq(members, Passes)
        IN  /\ ~last.raised
            /\ Len(ret) = Len(hits)
            /\ \A i \in 1..Len(ret) :
                  /\ ret[i][1] = hits[i]
                  /\ ret[i][2] = IF last.args.view_only THEN ModelRepr(models[hits[i]])
                                  ELSE models[hits[i]]

(***************************************************************************)
(* C22. project_names returns the name of every project of the project     *)
(* index, each exactly once, in ascending lexicographic order, whatever    *)
(* projects were added and removed before.                                 *)
(***************************************************************************)
C22_ProjectNames ==
    last.op = "project_names" =>
        LET ret == last.ret
        IN  /\ ~last.raised
            /\ Len(ret) = Cardinality(DOMAIN projects)
            /\ {ret[i] : i \in 1..Len(ret)} = {projects[k].project_name : k \in DOMAIN projects}
            /\ \A i, j \in 1..Len(ret) : i < j => LexLess(Chars[ret[i]], Chars[ret[j]])

\* the names of two projects are read, after a model was added and while
\* the key order of the index differs from the order of the names
C22_Witness ==
    /\ last.op = "project_names"
    /\ Len(last.ret) = 2
    /\ now > 0
    /\ LET keys == Traverse(DOMAIN projects)
       IN  projects[keys[1]].project_name # last.ret[1]

(***************************************************************************)
(* C23. reset_connection on a connected Depot changes nothing; on a        *)
(* disconnected Depot it returns with the connection re-created and both   *)
(* root keys present, every index that existed keeping its contents.       *)
(***************************************************************************)
C23_ResetConnection ==
    last.op = "reset_connection" =>
        /\ ~last.raised
        /\ models = last.pre_models
        /\ projects = last.pre_projects
        /\ IF last.pre_store.connected THEN store = last.pre_store
           ELSE store.connected /\ store.root = Range(RootKeys)

(***************************************************************************)
(* C24. The id of a record is the hash of its own static fields and of     *)
(* nothing else: of (project_name,) for a Project, the key under which the *)
(* Depot looks a model's project up, and of (model_object, project_name,   *)
(* timestamp) for a Model, whatever the dynamic fields and the ModelMeta   *)
(* hold.                                                                   *)
(***************************************************************************)
C24_IdentityFromStaticFields ==
    /\ obj.kind = "project" =>
          /\ ProjectId(obj.rec) = ProduceHash(<<Str(obj.rec.project_name)>>)
          /\ ProjectId(obj.rec) = PidOf(obj.rec.project_name)
    /\ obj.kind = "model" =>
          ModelId(obj.rec) = ProduceHash(<<Str(obj.rec.model_object),
                                           Str(obj.rec.project_name),
                                           Stamp(obj.rec.timestamp)>>)

(***************************************************************************)
(* C25. The hash of a digest with integer value n is ((n + 2^31) mod 2^32) *)
(* - 2^31, a value of [-2^31, 2^31 - 1]: the low 32 bits of n read as a    *)
(* signed number.  The expression is evaluated on the bytes of n: adding   *)
(* 2^31 adds 128 to the fourth byte from the end, whose carry leaves the   *)
(* low four bytes, which are what mod 2^32 keeps.                          *)
(***************************************************************************)
C25_SignedTruncation ==
    res.fn \in {"c_int32", "produce_hash"} =>
        LET d == IF res.fn = "c_int32" THEN arg.bytes ELSE Md5(JsonDumps(arg.val))
            k == Len(d)
            shifted == (d[k - 3] + 128) % 256
            expected == (shifted - 128) * 16777216 + d[k - 2] * 65536
                            + d[k - 1] * 256 + d[k]
        IN  /\ res.val = expected
            /\ res.val >= -2147483647 - 1
            /\ res.val <= 2147483647

\* a digest with bits above the 32nd and the 32nd bit set is hashed to a
\* negative number
C25_Witness ==
    /\ res.fn = "c_int32"
    /\ arg.bytes[1] = 255
    /\ arg.bytes[2] = 128
    /\ res.val < 0

(***************************************************************************)
(* C26. resolve_search of an operator followed by a bare value returns     *)
(* that operator, a two-character operator as one, and the literal of the  *)
(* value: what structured-literal parsing makes of it (int, float, True,   *)
(* None) when that succeeds, else what timestamp parsing makes of it, else *)
(* the value itself as a string.                                           *)
(***************************************************************************)
C26_ResolveSearch ==
    res.fn = "resolve_search" =>
        LET v == arg.value
            structured == "5" :> "int" @@ "12" :> "int" @@ "5.46" :> "float"
                              @@ "0.5" :> "float" @@ "True" :> "bool" @@ "None" :> "none"
            number == "5" :> 5 @@ "12" :> 12 @@ "5.46" :> 546 @@ "0.5" :> 5
                          @@ "True" :> 1 @@ "None" :> 0
            stamps == {IsoFormat(1), IsoFormat(2)}
        IN  /\ ~res.exc
            /\ res.cmp = arg.op
            /\ res.lit.text = v
            /\ IF v \in DOMAIN structured
               THEN res.lit.t = structured[v] /\ res.lit.n = number[v]
               ELSE IF v \in stamps THEN res.lit.t = "ts" /\ IsoFormat(res.lit.n) = v
               ELSE IF v = "" THEN res.lit.t = "nat"
               ELSE res.lit.t = "str"

\* '>=12' is resolved to greater-or-equal and the int 12
C26_Witness ==
    /\ res.fn = "resolve_search"
    /\ arg.op = ">="
    /\ res.cmp = ">="
    /\ arg.value = "12"
    /\ res.lit.t = "int"
    /\ res.lit.n = 12

(***************************************************************************)
(* C27. For two records a and b of one kind, a == b is true exactly when   *)
(* their ids are equal and a < b exactly when the id of a is the smaller   *)
(* one; in particular two records whose ids are equal are equal however    *)
(* their dynamic fields differ.                                            *)
(***************************************************************************)
C27_CompareByIdentity ==
    LET ida == IdOf(arg.of, arg.a)
        idb == IdOf(arg.of, arg.b)
    IN  /\ res.fn = "__eq__" => (res.val <=> ida = idb)
        /\ res.fn = "__lt__" => (res.val <=> ida < idb)

\* two Models with the same id and different dynamic fields compare equal
C27_Witness ==
    /\ res.fn = "__eq__"
    /\ arg.of = "model"
    /\ res.val
    /\ arg.a.creator # arg.b.creator
    /\ arg.a.meta_data # arg.b.meta_data

(***************************************************************************)
(* C28. The list get_field returns for a Project's member list is a copy:  *)
(* whatever a caller does to it, the Project's member list stays as it     *)
(* was.                                                                    *)
(***************************************************************************)
C28_GetFieldCopies ==
    olast.op = "list_mutation" => obj.rec = olast.pre

\* a caller has changed the list it got from a Project with members, and the
\* two lists now differ
C28_Witness ==
    /\ olast.op = "list_mutation"
    /\ obj.rec.models # <<>>
    /\ obj.got.list # obj.rec.models
    /\ obj.got.list # <<>>

(***************************************************************************)
(* C29. move_model_to_project finalises twice, the add before the removal: *)
(* when its add_model has succeeded, the committed indexes hold, before    *)
(* remove_model starts, the old model and a new one, the new identity in   *)
(* the target's member list and the old identity in every member list that *)
(* held it; the removal is finalised after that.                           *)
(***************************************************************************)
C29_MoveIntermediateState ==
    LET id == last.args.id
        added == Len(last.evs) >= 3 /\ SubSeq(last.evs, 1, 3) = <<"info", "commit", "success">>
    IN  /\ (Moving /\ added) =>
              /\ last.evs = <<"info", "commit", "success">>
              /\ id \in DOMAIN models
              /\ models[id] = last.pre_models[id]
              /\ \E nid \in DOMAIN models \ DOMAIN last.pre_models :
                    /\ nid # id
                    /\ DOMAIN models = DOMAIN last.pre_models \cup {nid}
                    /\ nid \in Range(projects[TargetPid(last.args.target)].models)
              /\ \A p \in DOMAIN last.pre_projects :
                    id \in Range(last.pre_projects[p].models) =>
                        p \in DOMAIN projects /\ id \in Range(projects[p].models)
        /\ (last.op = "move_model_to_project" /\ added) =>
              /\ Len(last.evs) > 3
              /\ \E i \in 4..Len(last.evs) : last.evs[i] \in {"commit", "abort"}

\* between the two calls of a move from one project to another: the old
\* model is in its project's list and the new one in the target's
C29_Witness ==
    /\ Moving
    /\ last.evs = <<"info", "commit", "success">>
    /\ \E p \in DOMAIN projects :
          /\ p # TargetPid(last.args.target)
          /\ last.args.id \in Range(projects[p].models)
    /\ projects[TargetPid(last.args.target)].models # <<>>

\* invariant I4 of the two indexes ms, ps: a member list holds keys of the
\* model index only, and every model naming a project of the index is in
\* that project's list
MemberListsIntact(ms, ps) ==
    \A pid \in DOMAIN ps :
        /\ \A i \in Range(ps[pid].models) : i \in DOMAIN ms
        /\ \A k \in DOMAIN ms :
              PidOf(ms[k].project_name) = pid => k \in Range(ps[pid].models)

(***************************************************************************)
(* C30. After every successful call of a mutating Depot operation,         *)
(* update_object_attr included, each member list holds only identities of  *)
(* the model index and holds the identity of every model of the model      *)
(* index that names its project.                                           *)
(***************************************************************************)
C30_MemberListsIntact ==
    (last.op \in MutatingOps /\ Succeeded(last)) => MemberListsIntact(models, projects)

(***************************************************************************)
(* C31. Log ordering: in the entries of one call of a mutating Depot       *)
(* operation, a success entry directly follows a commit and a failure      *)
(* entry directly follows an abort, and the call appends exactly one entry *)
(* of the two kinds, so never a failure entry and later a success entry.   *)
(***************************************************************************)
C31_LogOrdering ==
    last.op \in MutatingOps =>
        /\ \A i \in 1..Len(last.evs) :
              /\ last.evs[i] = "success" => (i > 1 /\ last.evs[i - 1] = "commit")
              /\ last.evs[i] = "error" => (i > 1 /\ last.evs[i - 1] = "abort")
        /\ Count(last.evs, "success") + Count(last.evs, "error") = 1

\* the commit at the end of the last call, whose body had succeeded, raised:
\* the wrapper's entries are the last of the call
OwnCommitFailed ==
    /\ last.op \in WrappedOps
    /\ Len(last.evs) >= 3
    /\ SubSeq(last.evs, Len(last.evs) - 2, Len(last.evs)) = <<"commit_failed", "abort", "error">>

(***************************************************************************)
(* C32. When the commit at the end of a mutating operation whose body      *)
(* succeeded raises, the call counts as failed: the abort is invoked, both *)
(* indexes are as before the call, the call logs no success entry, and     *)
(* nothing reaches the caller.                                             *)
(***************************************************************************)
C32_CommitFailure ==
    OwnCommitFailed =>
        /\ Unchanged
        /\ "success" \notin Range(last.evs)
        /\ ~last.raised

(***************************************************************************)
(* C33. resolve_search applied to an operator followed by a value wrapped  *)
(* in single quotes gives the same operator and the same literal as        *)
(* resolve_search applied to the operator followed by the bare value.      *)
(***************************************************************************)
C33_QuotedValue ==
    res.fn = "resolve_search_quoted" =>
        LET bare == ResolveSearch(Chars[arg.op] \o Chars[arg.value])
        IN  /\ res.exc = bare.exc
            /\ res.cmp = bare.cmp
            /\ res.lit = bare.lit

(***************************************************************************)
(* C34. remove_project of a stored project iterates over the member list   *)
(* as it was when the loop started: the values the loop variable takes are *)
(* exactly the members of the project before the call, each once and in    *)
(* stored order, also when the move target is the project itself.          *)
(***************************************************************************)
C34_SnapshotIteration ==
    (last.op = "remove_project" /\ last.args.id \in DOMAIN last.pre_projects) =>
        last.seen = last.pre_projects[last.args.id].models

\* the last call moved a stored model to a string that names no project
MovedToAbsentName ==
    /\ last.op = "move_model_to_project"
    /\ last.args.id \in DOMAIN last.pre_models
    /\ last.args.target.kind = "str"
    /\ ProduceHash(<<Str(last.args.target.name)>>) \notin DOMAIN last.pre_projects

(***************************************************************************)
(* C35. move_model_to_project of a stored model to a string that names no  *)
(* project: the add fails and is swallowed, the removal runs and commits,  *)
(* so the model index afterwards is the one before without the old model   *)
(* and with no new one, and nothing is raised.                             *)
(***************************************************************************)
C35_MoveToAbsentLosesModel ==
    MovedToAbsentName =>
        /\ ~last.raised
        /\ last.evs = <<"abort", "error", "info", "commit", "success">>
        /\ last.args.id \notin DOMAIN models
        /\ DOMAIN models = DOMAIN last.pre_models \ {last.args.id}

\* the last call was remove_model of a stored model whose project, the one
\* its own project_name names or the one remove_model looks up, was absent
RemovedOrphan ==
    /\ last.op = "remove_model"
    /\ last.args.id \in DOMAIN last.pre_models
    /\ LET m == last.pre_models[last.args.id]
       IN  \/ ProduceHash(<<Str(m.project_name)>>) \notin DOMAIN last.pre_projects
           \/ ProduceHash(<<Str(ModelGetField(m, "project_name"))>>)
                  \notin DOMAIN last.pre_projects

(***************************************************************************)
(* C36. remove_model of a model that is in the model index while its       *)
(* project is not in the project index fails: the abort undoes the         *)
(* deletion, so the model is still in the model index, both indexes are as *)
(* before, and nothing is raised.                                          *)
(***************************************************************************)
C36_RemoveOrphanFails ==
    RemovedOrphan =>
        /\ last.evs = <<"abort", "error">>
        /\ last.args.id \in DOMAIN models
        /\ Unchanged
        /\ ~last.raised

\* the model names its project itself, and that project had been removed
C36_Witness ==
    /\ RemovedOrphan
    /\ LET m == last.pre_models[last.args.id]
       IN  /\ ModelFilterDataObject(m, "project_name") = "self"
           /\ ProduceHash(<<Str(m.project_name)>>) \notin DOMAIN last.pre_projects
    /\ last.args.id \in DOMAIN models

\* the operations that only read the indexes
ReadOps == {"search_models", "search_models_project", "project_names"}

(***************************************************************************)
(* C37. search_models and project_names only read: whatever the arguments  *)
(* and the state, and whether the call returns or raises, the model index, *)
(* the project index with every member list and the clock are as before    *)
(* the call, and the Store sees neither a commit nor an abort.             *)
(***************************************************************************)
C37_ReadOnly ==
    last.op \in ReadOps =>
        /\ Unchanged
        /\ now = last.pre_now
        /\ "commit" \notin Range(last.evs)
        /\ "abort" \notin Range(last.evs)

\* a search that raised, over an index with a model in a member list
C37_Witness ==
    /\ last.op = "search_models_project"
    /\ last.raised
    /\ \E p \in DOMAIN projects : projects[p].models # <<>>
    /\ models # EmptyTree

(***************************************************************************)
(* C38. Round trip: when add_model(m) has succeeded, remove_model(m.id)    *)
(* right after it leaves the model index and the project index, member     *)
(* list order included, exactly as they were before the add, and           *)
(* add_model(m) then succeeds again.                                       *)
(***************************************************************************)
C38_RoundTrip ==
    /\ last.op = "round_trip.remove_model" => Unchanged
    /\ last.op = "round_trip" =>
          /\ Len(last.evs) = 9
          /\ SubSeq(last.evs, 7, 9) = <<"info", "commit", "success">>
          /\ ModelId(last.args.model) \in DOMAIN models

====
